---- MODULE Spec2Model ----
(***************************************************************************)
(* Model of HypeDragController v1.4.1 (src/HypeDragController.js): the     *)
(* per-document registry, the gesture handler (start / move / end-cancel), *)
(* the constraint resolver, the drop-target resolver, the transition       *)
(* helpers (snapBack, snapTo, autoSnap, lock, unlock), resetState and the  *)
(* two kinds of deferred tasks (session cleanup, deferred auto-snap).      *)
(***************************************************************************)
EXTENDS Integers, Sequences, FiniteSets, TLC

VARIABLES
    documents,    \* _documents: docId -> registry (dragData, interactionMap, constraints, zCounter)
    prop,         \* host geometry: element -> [left, top, width, height, z]
    locked,       \* element -> has class hypeDragElementLocked
    initAttr,     \* elements carrying data-initial-left/top -> <<left, top>>
    currentScene, \* document -> id of the scene on display
    defaults,     \* _default options read by the core
    gameState,    \* document -> customData.gameState ("empty" or "dirty")
    cleanups,     \* pending setTimeout(delete session, 50) tasks, in firing order
    snaps,        \* pending setTimeout(_applyAutoSnap, 0) tasks, in firing order
    zLog,         \* history: document -> stacking values assigned by starts, in order
    last          \* history: what the last operation did

vars == <<documents, prop, locked, initAttr, currentScene, defaults, gameState,
          cleanups, snaps, zLog, last>>

------------------------------------------------------------------------------
(* Bounds of the model *)

MaxCoord == 3
MaxPtr == 1
MaxTimers == 2
MaxRaise == 3

(* Program constants *)

ZBase == 10000

------------------------------------------------------------------------------
(* The host world: documents, scenes, elements and their static attributes *)

Docs == {"d1", "d2"}
Names == {"A", "B", "C"}
SceneIds == {"s1", "s2", "t1"}
Draggables == {"a", "b", "c", "n", "z"}
Elems == Draggables \cup {"p", "r"} \cup SceneIds

\* Document order of the elements (the order querySelectorAll enumerates them in).
ElemOrder == <<"s1", "p", "a", "b", "r", "n", "s2", "c", "t1", "z">>

\* doc: owning document; scene: enclosing scene; name: data-drag-name ("" if absent);
\* container: nearest enclosing .HYPE_element ancestor ("" if none);
\* target: carries data-drop-target; cls: the CSS selector the element matches.
ElemInfo(e) ==
    CASE e = "a" -> [doc |-> "d1", scene |-> "s1", name |-> "A", container |-> "p", target |-> FALSE, cls |-> ""]
      [] e = "b" -> [doc |-> "d1", scene |-> "s1", name |-> "B", container |-> "", target |-> TRUE, cls |-> ""]
      [] e = "n" -> [doc |-> "d1", scene |-> "s1", name |-> "", container |-> "", target |-> FALSE, cls |-> ""]
      [] e = "p" -> [doc |-> "d1", scene |-> "s1", name |-> "", container |-> "", target |-> TRUE, cls |-> ".box"]
      [] e = "r" -> [doc |-> "d1", scene |-> "s1", name |-> "", container |-> "", target |-> TRUE, cls |-> ".region"]
      [] e = "c" -> [doc |-> "d1", scene |-> "s2", name |-> "C", container |-> "", target |-> FALSE, cls |-> ""]
      [] e = "z" -> [doc |-> "d2", scene |-> "t1", name |-> "A", container |-> "", target |-> FALSE, cls |-> ""]
      [] e = "s1" -> [doc |-> "d1", scene |-> "s1", name |-> "", container |-> "", target |-> FALSE, cls |-> ""]
      [] e = "s2" -> [doc |-> "d1", scene |-> "s2", name |-> "", container |-> "", target |-> FALSE, cls |-> ""]
      [] OTHER -> [doc |-> "d2", scene |-> "t1", name |-> "", container |-> "", target |-> FALSE, cls |-> ""]

DocScenes(doc) == {s \in SceneIds : ElemInfo(s).doc = doc}
DocElems(doc) == {e \in Elems \ SceneIds : ElemInfo(e).doc = doc}

\* Declarative constraint attributes (data-drag-*) an element carries.
DataAttrs(e) ==
    IF e = "c" THEN [minX |-> 1, maxX |-> 2] ELSE <<>>

\* data-drag-auto-snap attribute: "unset", "true" or "false".
AutoSnapAttr(e) == IF e = "b" THEN "false" ELSE "unset"

------------------------------------------------------------------------------
(* Helpers over JS objects used as maps *)

Max(a, b) == IF a >= b THEN a ELSE b
Min(a, b) == IF a <= b THEN a ELSE b

Put(f, k, v) == (k :> v) @@ f
Del(f, k) == [x \in DOMAIN f \ {k} |-> f[x]]
Has(f, k) == k \in DOMAIN f

\* The elements of the scene (descendants of the scene element), in document order.
SceneSeq(scene) ==
    SelectSeq(ElemOrder, LAMBDA e : e \notin SceneIds /\ ElemInfo(e).scene = scene)

\* sceneEl.querySelector(selector): first match in document order, "" if none.
QuerySelector(scene, selector) ==
    LET hits == SelectSeq(SceneSeq(scene), LAMBDA e : ElemInfo(e).cls = selector)
    IN IF hits = <<>> THEN "" ELSE Head(hits)

\* sceneEl.querySelector('[data-drag-name="name"]').
QueryDragName(scene, name) ==
    LET hits == SelectSeq(SceneSeq(scene), LAMBDA e : ElemInfo(e).name = name)
    IN IF hits = <<>> THEN "" ELSE Head(hits)

------------------------------------------------------------------------------
(* SessionRegistry *)

NewRegistry == [dragData |-> <<>>, interactionMap |-> <<>>, constraints |-> <<>>, zCounter |-> ZBase]

\* _getDocRegistry: the registry of the document, created on first use.
getDocRegistry(docs, doc) == IF Has(docs, doc) THEN docs[doc] ELSE NewRegistry

------------------------------------------------------------------------------
(* OverlapResolver *)

RECURSIVE dropScan(_, _, _, _, _)

\* The loop with >= in place of > : a later target of equal area replaces the best.
dropScanKeepsLast(targets, i, element, p, acc) ==
    IF i > Len(targets) THEN acc.best
    ELSE
        LET d == p[element]
            t == p[targets[i]]
            intersects ==
                /\ d.left < t.left + t.width /\ d.left + d.width > t.left
                /\ d.top < t.top + t.height /\ d.top + d.height > t.top
            overlapArea ==
                Max(0, Min(d.left + d.width, t.left + t.width) - Max(d.left, t.left))
                  * Max(0, Min(d.top + d.height, t.top + t.height) - Max(d.top, t.top))
        IN  IF targets[i] # element /\ intersects /\ overlapArea >= acc.area
            THEN dropScan(targets, i + 1, element, p, [best |-> targets[i], area |-> overlapArea])
            ELSE dropScan(targets, i + 1, element, p, acc)

\* The loop without "if (targetEl === element) continue".
dropScanWithSelf(targets, i, element, p, acc) ==
    IF i > Len(targets) THEN acc.best
    ELSE
        LET d == p[element]
            t == p[targets[i]]
            intersects ==
                /\ d.left < t.left + t.width /\ d.left + d.width > t.left
                /\ d.top < t.top + t.height /\ d.top + d.height > t.top
            overlapArea ==
                Max(0, Min(d.left + d.width, t.left + t.width) - Max(d.left, t.left))
                  * Max(0, Min(d.top + d.height, t.top + t.height) - Max(d.top, t.top))
        IN  IF intersects /\ overlapArea > acc.area
            THEN dropScan(targets, i + 1, element, p, [best |-> targets[i], area |-> overlapArea])
            ELSE dropScan(targets, i + 1, element, p, acc)

\* One iteration of the loop of _getDropTarget over targetElements[i..]: acc is
\* [best, area] = (bestTarget, maxOverlapArea).
dropScan(targets, i, element, p, acc) ==
    IF i > Len(targets) THEN acc.best
    ELSE
        LET targetEl == targets[i]
            dragLeft == p[element].left
            dragTop == p[element].top
            dragWidth == p[element].width
            dragHeight == p[element].height
            targetLeft == p[targetEl].left
            targetTop == p[targetEl].top
            targetWidth == p[targetEl].width
            targetHeight == p[targetEl].height
            intersects ==
                /\ dragLeft < targetLeft + targetWidth
                /\ dragLeft + dragWidth > targetLeft
                /\ dragTop < targetTop + targetHeight
                /\ dragTop + dragHeight > targetTop
            overlapLeft == Max(dragLeft, targetLeft)
            overlapTop == Max(dragTop, targetTop)
            overlapRight == Min(dragLeft + dragWidth, targetLeft + targetWidth)
            overlapBottom == Min(dragTop + dragHeight, targetTop + targetHeight)
            overlapWidth == Max(0, overlapRight - overlapLeft)
            overlapHeight == Max(0, overlapBottom - overlapTop)
            overlapArea == overlapWidth * overlapHeight
        IN  IF targetEl = element THEN dropScan(targets, i + 1, element, p, acc)
            ELSE IF intersects /\ overlapArea > acc.area
                 THEN dropScan(targets, i + 1, element, p, [best |-> targetEl, area |-> overlapArea])
                 ELSE dropScan(targets, i + 1, element, p, acc)

\* _getDropTarget: the drop target of the current scene with the largest overlap
\* with the dragged element, "" (null) if none.
getDropTarget(element, scene, p) ==
    LET targetElements == SelectSeq(SceneSeq(scene), LAMBDA e : ElemInfo(e).target)
    IN dropScan(targetElements, 1, element, p, [best |-> "", area |-> 0])

------------------------------------------------------------------------------
(* ConstraintResolver *)

\* _getWithinBounds: found = FALSE stands for the null result.
getWithinBounds(element, within, scene, p) ==
    LET container ==
            IF within = "parent"
            THEN (IF ElemInfo(element).container # "" THEN ElemInfo(element).container ELSE scene)
            ELSE QuerySelector(scene, within)
    IN  IF container = ""
        THEN [found |-> FALSE, minX |-> 0, maxX |-> 0, minY |-> 0, maxY |-> 0]
        ELSE
            LET containerWidth == p[container].width
                containerHeight == p[container].height
                elementWidth == p[element].width
                elementHeight == p[element].height
            IN  IF within = "parent"
                THEN [found |-> TRUE,
                      minX |-> 0, maxX |-> containerWidth - elementWidth,
                      minY |-> 0, maxY |-> containerHeight - elementHeight]
                ELSE [found |-> TRUE,
                      minX |-> p[container].left,
                      maxX |-> p[container].left + containerWidth - elementWidth,
                      minY |-> p[container].top,
                      maxY |-> p[container].top + containerHeight - elementHeight]

\* The boundary clamp with the two upper bounds left out.
boundaryClampLowerOnly(c, proposedLeft, proposedTop) ==
    [left |-> IF Has(c, "minX") THEN Max(proposedLeft, c.minX) ELSE proposedLeft,
     top |-> IF Has(c, "minY") THEN Max(proposedTop, c.minY) ELSE proposedTop]

\* Stage 1 of _computeConstrainedPosition: the absolute boundary clamp.
boundaryClamp(c, proposedLeft, proposedTop) ==
    LET l1 == IF Has(c, "minX") THEN Max(proposedLeft, c.minX) ELSE proposedLeft
        l2 == IF Has(c, "maxX") THEN Min(l1, c.maxX) ELSE l1
        t1 == IF Has(c, "minY") THEN Max(proposedTop, c.minY) ELSE proposedTop
        t2 == IF Has(c, "maxY") THEN Min(t1, c.maxY) ELSE t1
    IN [left |-> l2, top |-> t2]

\* The axis lock left out.
axisLockOff(c, pos, axisBaselineLeft, axisBaselineTop) == pos

\* Stage 2: the axis lock.
axisLock(c, pos, axisBaselineLeft, axisBaselineTop) ==
    LET t == IF Has(c, "axis") /\ c.axis = "x" THEN axisBaselineTop ELSE pos.top
        l == IF Has(c, "axis") /\ c.axis = "y" THEN axisBaselineLeft ELSE pos.left
    IN [left |-> l, top |-> t]

\* The within-region clamp with min and max applied in the other order.
withinClampMaxFirst(element, c, pos, scene, p) ==
    IF Has(c, "within")
    THEN LET bounds == getWithinBounds(element, c.within, scene, p)
         IN IF bounds.found
            THEN [left |-> Min(bounds.maxX, Max(pos.left, bounds.minX)),
                  top |-> Min(bounds.maxY, Max(pos.top, bounds.minY))]
            ELSE pos
    ELSE pos

\* The within-region clamp that treats an unresolved region as the empty
\* rectangle at the origin.
withinClampNullAsZero(element, c, pos, scene, p) ==
    IF Has(c, "within")
    THEN LET bounds == getWithinBounds(element, c.within, scene, p)
         IN [left |-> Max(bounds.minX, Min(pos.left, bounds.maxX)),
             top |-> Max(bounds.minY, Min(pos.top, bounds.maxY))]
    ELSE pos

\* Stage 3: the within-region clamp.
withinClamp(element, c, pos, scene, p) ==
    IF Has(c, "within")
    THEN LET bounds == getWithinBounds(element, c.within, scene, p)
         IN IF bounds.found
            THEN [left |-> Max(bounds.minX, Min(pos.left, bounds.maxX)),
                  top |-> Max(bounds.minY, Min(pos.top, bounds.maxY))]
            ELSE pos
    ELSE pos

\* _computeConstrainedPosition for a spec c that is present (its callers test it).
computeConstrainedPosition(element, c, proposedLeft, proposedTop, axisBaselineLeft, axisBaselineTop, scene, p) ==
    withinClamp(element, c,
                axisLock(c, boundaryClamp(c, proposedLeft, proposedTop),
                         axisBaselineLeft, axisBaselineTop),
                scene, p)

------------------------------------------------------------------------------
(* The program state as one value, so that an operation that calls another   *)
(* (a callback calling snapBack, a scene change calling resetState) is the   *)
(* composition of their effects.                                             *)

Cur ==
    [documents |-> documents, prop |-> prop, locked |-> locked, initAttr |-> initAttr,
     currentScene |-> currentScene, defaults |-> defaults, gameState |-> gameState,
     cleanups |-> cleanups, snaps |-> snaps, zLog |-> zLog, last |-> last]

Commit(st) ==
    /\ documents' = st.documents
    /\ prop' = st.prop
    /\ locked' = st.locked
    /\ initAttr' = st.initAttr
    /\ currentScene' = st.currentScene
    /\ defaults' = st.defaults
    /\ gameState' = st.gameState
    /\ cleanups' = st.cleanups
    /\ snaps' = st.snaps
    /\ zLog' = st.zLog
    /\ last' = st.last

\* History record of an operation: name = the drag identifier it concerns; clamped
\* = the resolver changed the position proposed to it; wrote = it wrote left/top (wl, wt the values);
\* cb = the callback it invoked; target = the dropTarget it attached to the event
\* ("unset" if none was attached, "" for null); stale = (cleanup only) a start for
\* the same identifier was handled after the task was scheduled; again = (autoSnap
\* only) the operation before it was an autoSnap of the same element; seen = what
\* the callback found when it was invoked.
NotSeen ==
    [present |-> FALSE, active |-> FALSE, initialLeft |-> 0, initialTop |-> 0,
     target |-> "unset", tasks |-> 0, left |-> 0, top |-> 0]

Op(op, doc, el) ==
    [op |-> op, doc |-> doc, el |-> el, name |-> ElemInfo(el).name,
     wrote |-> FALSE, wl |-> 0, wt |-> 0, clamped |-> FALSE,
     cb |-> "none", target |-> "unset", stale |-> FALSE, again |-> FALSE,
     seen |-> NotSeen]

Begin(st, op, doc, el) == [st EXCEPT !.last = Op(op, doc, el)]

\* doc = _getDocRegistry(hypeDocument), creating the registry when missing.
withRegistry(st, doc) ==
    [st EXCEPT !.documents = Put(@, doc, getDocRegistry(@, doc))]

\* hypeDocument.setElementProperty(element, 'left'/'top', ...): an animated write is
\* modelled by its target value.
writePosition(st, el, l, t) ==
    [st EXCEPT !.prop[el].left = l, !.prop[el].top = t,
               !.last.wrote = TRUE, !.last.wl = l, !.last.wt = t]

------------------------------------------------------------------------------
(* TransitionController *)

\* snapBack without the restore of the stacking value.
snapBackKeepsRaise(st, doc, el) ==
    LET s0 == withRegistry(st, doc)
        dragName == ElemInfo(el).name
        dragData == s0.documents[doc].dragData
    IN  IF dragName = "" THEN s0
        ELSE IF ~Has(dragData, dragName) THEN s0
        ELSE writePosition(s0, el, dragData[dragName].initialLeft, dragData[dragName].initialTop)

\* snapBack that restores the stacking value whatever bringToFront says.
snapBackAlwaysRestoresZ(st, doc, el) ==
    LET s0 == withRegistry(st, doc)
        dragName == ElemInfo(el).name
        dragData == s0.documents[doc].dragData
    IN  IF dragName = "" THEN s0
        ELSE IF ~Has(dragData, dragName) THEN s0
        ELSE LET data == dragData[dragName]
                 s1 == writePosition(s0, el, data.initialLeft, data.initialTop)
             IN [s1 EXCEPT !.prop[el].z = data.initialZ]

snapBack(st, doc, el) ==
    LET s0 == withRegistry(st, doc)
        dragName == ElemInfo(el).name
        dragData == s0.documents[doc].dragData
    IN  IF dragName = "" THEN s0
        ELSE IF ~Has(dragData, dragName) THEN s0
        ELSE LET data == dragData[dragName]
                 s1 == writePosition(s0, el, data.initialLeft, data.initialTop)
             IN IF s1.defaults.bringToFront
                THEN [s1 EXCEPT !.prop[el].z = data.initialZ]
                ELSE s1

\* snapTo that also brings the dragged element one step forward.
snapToRaises(st, doc, draggedElement, destination) ==
    LET destElement ==
            IF destination.kind = "selector"
            THEN QuerySelector(st.currentScene[doc], destination.v)
            ELSE destination.v
    IN  IF destElement = "" THEN st
        ELSE [writePosition(st, draggedElement, st.prop[destElement].left, st.prop[destElement].top)
                EXCEPT !.prop[draggedElement].z = @ + 1]

\* destination: [kind |-> "element" | "selector", v |-> element id | selector].
snapTo(st, doc, draggedElement, destination) ==
    LET destElement ==
            IF destination.kind = "selector"
            THEN QuerySelector(st.currentScene[doc], destination.v)
            ELSE destination.v
    IN  IF destElement = "" THEN st
        ELSE writePosition(st, draggedElement, st.prop[destElement].left, st.prop[destElement].top)

lock(st, el) == [st EXCEPT !.locked[el] = TRUE]

unlock(st, el) == [st EXCEPT !.locked[el] = FALSE]

\* _applyAutoSnap without the "only update position if it actually changed" test.
applyAutoSnapAlwaysWrites(st, doc, el) ==
    LET s0 == withRegistry(st, doc)
        dragName == ElemInfo(el).name
        cs == s0.documents[doc].constraints
    IN  IF dragName = "" THEN s0
        ELSE IF ~Has(cs, dragName) THEN s0
        ELSE LET currentLeft == s0.prop[el].left
                 currentTop == s0.prop[el].top
                 result == computeConstrainedPosition(el, cs[dragName], currentLeft, currentTop,
                                                      currentLeft, currentTop,
                                                      s0.currentScene[doc], s0.prop)
             IN [writePosition(s0, el, result.left, result.top)
                   EXCEPT !.initAttr = Put(@, el, <<result.left, result.top>>),
                          !.last.clamped = TRUE]

\* _applyAutoSnap that refreshes data-initial-left/top also when the position
\* did not change.
applyAutoSnapRefreshesAttrs(st, doc, el) ==
    LET s0 == withRegistry(st, doc)
        dragName == ElemInfo(el).name
        cs == s0.documents[doc].constraints
    IN  IF dragName = "" THEN s0
        ELSE IF ~Has(cs, dragName) THEN s0
        ELSE LET currentLeft == s0.prop[el].left
                 currentTop == s0.prop[el].top
                 result == computeConstrainedPosition(el, cs[dragName], currentLeft, currentTop,
                                                      currentLeft, currentTop,
                                                      s0.currentScene[doc], s0.prop)
                 s1 == [s0 EXCEPT !.initAttr = Put(@, el, <<result.left, result.top>>)]
             IN IF result.left # currentLeft \/ result.top # currentTop
                THEN [writePosition(s1, el, result.left, result.top) EXCEPT !.last.clamped = TRUE]
                ELSE s1

\* _applyAutoSnap that tests the stored spec's autoSnap flag again and leaves
\* the element alone when the spec says false.
applyAutoSnapHonoursFlag(st, doc, el) ==
    LET s0 == withRegistry(st, doc)
        dragName == ElemInfo(el).name
        cs == s0.documents[doc].constraints
    IN  IF dragName = "" THEN s0
        ELSE IF ~Has(cs, dragName) THEN s0
        ELSE IF Has(cs[dragName], "autoSnap") /\ ~cs[dragName].autoSnap THEN s0
        ELSE LET currentLeft == s0.prop[el].left
                 currentTop == s0.prop[el].top
                 result == computeConstrainedPosition(el, cs[dragName], currentLeft, currentTop,
                                                      currentLeft, currentTop,
                                                      s0.currentScene[doc], s0.prop)
             IN IF result.left # currentLeft \/ result.top # currentTop
                THEN [writePosition(s0, el, result.left, result.top)
                        EXCEPT !.initAttr = Put(@, el, <<result.left, result.top>>),
                               !.last.clamped = TRUE]
                ELSE s0

applyAutoSnap(st, doc, el) ==
    LET s0 == withRegistry(st, doc)
        dragName == ElemInfo(el).name
        cs == s0.documents[doc].constraints
    IN  IF dragName = "" THEN s0
        ELSE IF ~Has(cs, dragName) THEN s0
        ELSE LET currentLeft == s0.prop[el].left
                 currentTop == s0.prop[el].top
                 result == computeConstrainedPosition(el, cs[dragName], currentLeft, currentTop,
                                                      currentLeft, currentTop,
                                                      s0.currentScene[doc], s0.prop)
             IN IF result.left # currentLeft \/ result.top # currentTop
                THEN [writePosition(s0, el, result.left, result.top)
                        EXCEPT !.initAttr = Put(@, el, <<result.left, result.top>>),
                               !.last.clamped = TRUE]
                ELSE s0

------------------------------------------------------------------------------
(* InteractionDispatcher *)

\* User callbacks call back into the API (re-entrant calls).
RECURSIVE handlerStart(_, _, _, _, _)
RECURSIVE setConstraints(_, _, _, _)

\* The spec a callback passes to setConstraints.
CallbackSpec == [maxY |-> 2]

\* History only: the session of the identifier, the dropTarget on the event, the
\* number of pending cleanup tasks and the element's position at the moment a
\* callback is invoked.
Seen(st, doc, el) ==
    LET dragName == ElemInfo(el).name
        dragData == st.documents[doc].dragData
        present == Has(dragData, dragName)
    IN [present |-> present,
        active |-> present /\ dragData[dragName].isActive,
        initialLeft |-> IF present THEN dragData[dragName].initialLeft ELSE 0,
        initialTop |-> IF present THEN dragData[dragName].initialTop ELSE 0,
        target |-> st.last.target,
        tasks |-> Len(st.cleanups),
        left |-> st.prop[el].left,
        top |-> st.prop[el].top]

\* A handler record has the slots onStart, onProgress, onDrop; a slot holds "none"
\* (no function) or the behaviour of the user's function: "noop" (touches nothing
\* of the controller), "snapBack" (calls hypeDocument.drag.snapBack(element)),
\* "start" (calls hypeDocument.drag.handler with a start event for the element,
\* pointer at 0, 0) or "setConstraints" (calls hypeDocument.drag.setConstraints
\* for the element).
invoke(st, doc, el, slot) ==
    LET dragName == ElemInfo(el).name
        map == st.documents[doc].interactionMap
    IN  IF Has(map, dragName) /\ map[dragName][slot] # "none"
        THEN LET s1 == [st EXCEPT !.last.cb = slot, !.last.seen = Seen(st, doc, el)]
                 behaviour == map[dragName][slot]
             IN CASE behaviour = "snapBack" -> snapBack(s1, doc, el)
                  [] behaviour = "start" -> handlerStart(s1, doc, el, 0, 0)
                  [] behaviour = "setConstraints" ->
                        setConstraints(s1, doc, <<[kind |-> "element", v |-> el]>>, CallbackSpec)
                  [] OTHER -> s1
        ELSE st

------------------------------------------------------------------------------
(* GestureStateMachine: handler(hypeDocument, element, event), one operator   *)
(* per gesture phase of the event.                                           *)

\* A raise that writes the counter back unchanged.
preIncrementStuck(zCounter) == zCounter

\* ++doc.zCounter
preIncrement(zCounter) == zCounter + 1

\* History only: a start for (doc, dragName) makes the pending cleanup tasks of
\* that identifier stale (they were scheduled by the end of an earlier session).
markStale(tasks, doc, dragName) ==
    [i \in DOMAIN tasks |->
        IF tasks[i].doc = doc /\ tasks[i].name = dragName
        THEN [tasks[i] EXCEPT !.stale = TRUE] ELSE tasks[i]]

\* The start branch that reuses the cached data-initial-left/top as baseline when
\* the element carries them, instead of reading the live position.
handlerStartCachedBaseline(st, doc, element, x, y) ==
    LET s0 == withRegistry(st, doc)
        dragName == ElemInfo(element).name
    IN  IF dragName = "" THEN s0
        ELSE
          LET cached == Has(s0.initAttr, element)
              initialLeft == IF cached THEN s0.initAttr[element][1] ELSE s0.prop[element].left
              initialTop == IF cached THEN s0.initAttr[element][2] ELSE s0.prop[element].top
              data == [initialLeft |-> initialLeft, initialTop |-> initialTop,
                       initialZ |-> s0.prop[element].z,
                       startX |-> x, startY |-> y, isActive |-> TRUE]
              s1 == [s0 EXCEPT !.initAttr = Put(@, element, <<initialLeft, initialTop>>),
                               !.documents[doc].dragData = Put(@, dragName, data),
                               !.cleanups = markStale(@, doc, dragName)]
              zNew == preIncrement(s1.documents[doc].zCounter)
              s2 == IF s1.defaults.bringToFront
                    THEN [s1 EXCEPT !.documents[doc].zCounter = zNew,
                                    !.prop[element].z = zNew,
                                    !.zLog[doc] = Append(@, zNew)]
                    ELSE s1
          IN invoke(s2, doc, element, "onStart")

handlerStart(st, doc, element, x, y) ==
    LET s0 == withRegistry(st, doc)
        dragName == ElemInfo(element).name
    IN  IF dragName = "" THEN s0
        ELSE
          LET initialLeft == s0.prop[element].left
              initialTop == s0.prop[element].top
              data == [initialLeft |-> initialLeft, initialTop |-> initialTop,
                       initialZ |-> s0.prop[element].z,
                       startX |-> x, startY |-> y, isActive |-> TRUE]
              s1 == [s0 EXCEPT !.initAttr = Put(@, element, <<initialLeft, initialTop>>),
                               !.documents[doc].dragData = Put(@, dragName, data),
                               !.cleanups = markStale(@, doc, dragName)]
              zNew == preIncrement(s1.documents[doc].zCounter)
              s2 == IF s1.defaults.bringToFront
                    THEN [s1 EXCEPT !.documents[doc].zCounter = zNew,
                                    !.prop[element].z = zNew,
                                    !.zLog[doc] = Append(@, zNew)]
                    ELSE s1
          IN invoke(s2, doc, element, "onStart")

\* The guard of the move branch: doc.dragData[dragName] is truthy.
moveGuard(dragData, dragName) == Has(dragData, dragName)

\* The move branch of an incremental drag: the pointer's step since the
\* previous event is added to the element's live position, and the session
\* is re-based on the event.
handlerMoveIncremental(st, doc, element, x, y) ==
    LET s0 == withRegistry(st, doc)
        dragName == ElemInfo(element).name
        reg == s0.documents[doc]
    IN  IF dragName = "" THEN s0
        ELSE IF ~moveGuard(reg.dragData, dragName) THEN s0
        ELSE
          LET data == reg.dragData[dragName]
              newLeft == s0.prop[element].left + (x - data.startX)
              newTop == s0.prop[element].top + (y - data.startY)
              result ==
                  IF Has(reg.constraints, dragName)
                  THEN computeConstrainedPosition(element, reg.constraints[dragName],
                                                  newLeft, newTop,
                                                  data.initialLeft, data.initialTop,
                                                  s0.currentScene[doc], s0.prop)
                  ELSE [left |-> newLeft, top |-> newTop]
              s1 == [writePosition(s0, element, result.left, result.top)
                       EXCEPT !.last.clamped = (result.left # newLeft \/ result.top # newTop),
                              !.documents[doc].dragData[dragName].startX = x,
                              !.documents[doc].dragData[dragName].startY = y]
          IN invoke(s1, doc, element, "onProgress")

\* The move branch that invokes onProgress before it writes the position.
handlerMoveCallsFirst(st, doc, element, x, y) ==
    LET s0 == withRegistry(st, doc)
        dragName == ElemInfo(element).name
        reg == s0.documents[doc]
    IN  IF dragName = "" THEN s0
        ELSE IF ~moveGuard(reg.dragData, dragName) THEN s0
        ELSE
          LET data == reg.dragData[dragName]
              newLeft == data.initialLeft + (x - data.startX)
              newTop == data.initialTop + (y - data.startY)
              result ==
                  IF Has(reg.constraints, dragName)
                  THEN computeConstrainedPosition(element, reg.constraints[dragName],
                                                  newLeft, newTop,
                                                  data.initialLeft, data.initialTop,
                                                  s0.currentScene[doc], s0.prop)
                  ELSE [left |-> newLeft, top |-> newTop]
              s1 == invoke(s0, doc, element, "onProgress")
          IN [writePosition(s1, element, result.left, result.top)
                EXCEPT !.last.clamped = (result.left # newLeft \/ result.top # newTop)]

handlerMove(st, doc, element, x, y) ==
    LET s0 == withRegistry(st, doc)
        dragName == ElemInfo(element).name
        reg == s0.documents[doc]
    IN  IF dragName = "" THEN s0
        ELSE IF ~moveGuard(reg.dragData, dragName) THEN s0
        ELSE
          LET data == reg.dragData[dragName]
              newLeft == data.initialLeft + (x - data.startX)
              newTop == data.initialTop + (y - data.startY)
              result ==
                  IF Has(reg.constraints, dragName)
                  THEN computeConstrainedPosition(element, reg.constraints[dragName],
                                                  newLeft, newTop,
                                                  data.initialLeft, data.initialTop,
                                                  s0.currentScene[doc], s0.prop)
                  ELSE [left |-> newLeft, top |-> newTop]
              s1 == [writePosition(s0, element, result.left, result.top)
                       EXCEPT !.last.clamped = (result.left # newLeft \/ result.top # newTop)]
          IN invoke(s1, doc, element, "onProgress")

\* setTimeout(() => { delete doc.dragData[dragName]; }, 50)
scheduleCleanup(tasks, doc, dragName) ==
    Append(tasks, [doc |-> doc, name |-> dragName, stale |-> FALSE])

\* The end/cancel branch without the test of isActive.
handlerEndOfAnySession(st, doc, element) ==
    LET s0 == withRegistry(st, doc)
        dragName == ElemInfo(element).name
        dragData == s0.documents[doc].dragData
    IN  IF dragName = "" THEN s0
        ELSE IF ~Has(dragData, dragName) THEN s0
        ELSE
          LET s1 == [s0 EXCEPT !.documents[doc].dragData[dragName].isActive = FALSE]
              dropTarget == getDropTarget(element, s1.currentScene[doc], s1.prop)
              s2 == [s1 EXCEPT !.last.target = dropTarget]
              s3 == invoke(s2, doc, element, "onDrop")
          IN [s3 EXCEPT !.cleanups = scheduleCleanup(@, doc, dragName)]

\* The end/cancel branch taken unless the session is marked inactive, so also
\* when there is no session (doc.dragData[dragName]?.isActive !== false).
handlerEndUnlessInactive(st, doc, element) ==
    LET s0 == withRegistry(st, doc)
        dragName == ElemInfo(element).name
        dragData == s0.documents[doc].dragData
    IN  IF dragName = "" THEN s0
        ELSE IF Has(dragData, dragName) /\ ~dragData[dragName].isActive THEN s0
        ELSE
          LET s1 == IF Has(dragData, dragName)
                    THEN [s0 EXCEPT !.documents[doc].dragData[dragName].isActive = FALSE]
                    ELSE s0
              dropTarget == getDropTarget(element, s1.currentScene[doc], s1.prop)
              s2 == [s1 EXCEPT !.last.target = dropTarget]
              s3 == invoke(s2, doc, element, "onDrop")
          IN [s3 EXCEPT !.cleanups = scheduleCleanup(@, doc, dragName)]

\* The end/cancel branch without "data.isActive = false".
handlerEndKeepsActive(st, doc, element) ==
    LET s0 == withRegistry(st, doc)
        dragName == ElemInfo(element).name
        dragData == s0.documents[doc].dragData
    IN  IF dragName = "" THEN s0
        ELSE IF ~(Has(dragData, dragName) /\ dragData[dragName].isActive) THEN s0
        ELSE
          LET dropTarget == getDropTarget(element, s0.currentScene[doc], s0.prop)
              s2 == [s0 EXCEPT !.last.target = dropTarget]
              s3 == invoke(s2, doc, element, "onDrop")
          IN [s3 EXCEPT !.cleanups = scheduleCleanup(@, doc, dragName)]

\* The end/cancel branch that schedules the deferred delete before it invokes
\* onDrop.
handlerEndSchedulesFirst(st, doc, element) ==
    LET s0 == withRegistry(st, doc)
        dragName == ElemInfo(element).name
        dragData == s0.documents[doc].dragData
    IN  IF dragName = "" THEN s0
        ELSE IF ~(Has(dragData, dragName) /\ dragData[dragName].isActive) THEN s0
        ELSE
          LET s1 == [s0 EXCEPT !.documents[doc].dragData[dragName].isActive = FALSE]
              dropTarget == getDropTarget(element, s1.currentScene[doc], s1.prop)
              s2 == [s1 EXCEPT !.last.target = dropTarget,
                               !.cleanups = scheduleCleanup(@, doc, dragName)]
          IN invoke(s2, doc, element, "onDrop")

\* The end/cancel branch without the deferred delete.
handlerEndForgetsCleanup(st, doc, element) ==
    LET s0 == withRegistry(st, doc)
        dragName == ElemInfo(element).name
        dragData == s0.documents[doc].dragData
    IN  IF dragName = "" THEN s0
        ELSE IF ~(Has(dragData, dragName) /\ dragData[dragName].isActive) THEN s0
        ELSE
          LET s1 == [s0 EXCEPT !.documents[doc].dragData[dragName].isActive = FALSE]
              dropTarget == getDropTarget(element, s1.currentScene[doc], s1.prop)
              s2 == [s1 EXCEPT !.last.target = dropTarget]
          IN invoke(s2, doc, element, "onDrop")

\* Phases 'end' and 'cancel' take the same branch.
handlerEnd(st, doc, element) ==
    LET s0 == withRegistry(st, doc)
        dragName == ElemInfo(element).name
        dragData == s0.documents[doc].dragData
    IN  IF dragName = "" THEN s0
        ELSE IF ~(Has(dragData, dragName) /\ dragData[dragName].isActive) THEN s0
        ELSE
          LET s1 == [s0 EXCEPT !.documents[doc].dragData[dragName].isActive = FALSE]
              dropTarget == getDropTarget(element, s1.currentScene[doc], s1.prop)
              s2 == [s1 EXCEPT !.last.target = dropTarget]
              s3 == invoke(s2, doc, element, "onDrop")
          IN [s3 EXCEPT !.cleanups = scheduleCleanup(@, doc, dragName)]

\* The deferred delete applied to the registries of all loaded documents.
cleanupTaskEveryDocument(st, task) ==
    [st EXCEPT !.documents = [d \in DOMAIN @ |-> [@[d] EXCEPT !.dragData = Del(@, task.name)]],
               !.last.name = task.name,
               !.last.stale = task.stale]

\* The deferred task of an end: delete doc.dragData[dragName].
cleanupTask(st, task) ==
    [st EXCEPT !.documents[task.doc].dragData = Del(@, task.name),
               !.last.name = task.name,
               !.last.stale = task.stale]

------------------------------------------------------------------------------
(* Registry API *)

\* setInteractionMap that adds the records of the new map to the old one
\* instead of replacing it.
setInteractionMapMerges(st, doc, map) ==
    [withRegistry(st, doc) EXCEPT !.documents[doc].interactionMap = map @@ @]

setInteractionMap(st, doc, map) ==
    [withRegistry(st, doc) EXCEPT !.documents[doc].interactionMap = map]

\* _applyConstraintsToElement without the test of the element's drag name.
applyConstraintsToAnyElement(st, doc, item, c) ==
    LET targetElement ==
            IF item.kind = "name"
            THEN QueryDragName(st.currentScene[doc], item.v)
            ELSE item.v
        dragName == IF item.kind = "name" THEN item.v ELSE ElemInfo(item.v).name
    IN  IF targetElement = "" THEN st
        ELSE
          LET s1 == [st EXCEPT !.documents[doc].constraints = Put(@, dragName, c)]
              shouldSnap == IF Has(c, "autoSnap") THEN c.autoSnap ELSE s1.defaults.autoSnap
          IN IF shouldSnap
             THEN [s1 EXCEPT !.snaps = Append(@, [doc |-> doc, el |-> targetElement])]
             ELSE s1

\* _applyConstraintsToElement that snaps the element before it returns instead
\* of deferring the snap.
applyConstraintsSnapsNow(st, doc, item, c) ==
    LET targetElement ==
            IF item.kind = "name"
            THEN QueryDragName(st.currentScene[doc], item.v)
            ELSE item.v
        dragName == IF item.kind = "name" THEN item.v ELSE ElemInfo(item.v).name
    IN  IF targetElement = "" \/ dragName = "" THEN st
        ELSE
          LET s1 == [st EXCEPT !.documents[doc].constraints = Put(@, dragName, c)]
              shouldSnap == IF Has(c, "autoSnap") THEN c.autoSnap ELSE s1.defaults.autoSnap
          IN IF shouldSnap THEN applyAutoSnap(s1, doc, targetElement) ELSE s1

\* _applyConstraintsToElement that stores the spec of a drag name before it
\* looks the element up, and only skips the auto-snap when none is found.
applyConstraintsStoresUnresolved(st, doc, item, c) ==
    LET targetElement ==
            IF item.kind = "name"
            THEN QueryDragName(st.currentScene[doc], item.v)
            ELSE item.v
        dragName == IF item.kind = "name" THEN item.v ELSE ElemInfo(item.v).name
    IN  IF dragName = "" THEN st
        ELSE
          LET s1 == [st EXCEPT !.documents[doc].constraints = Put(@, dragName, c)]
              shouldSnap == IF Has(c, "autoSnap") THEN c.autoSnap ELSE s1.defaults.autoSnap
          IN IF shouldSnap /\ targetElement # ""
             THEN [s1 EXCEPT !.snaps = Append(@, [doc |-> doc, el |-> targetElement])]
             ELSE s1

\* item: [kind |-> "element" | "name", v |-> element id | drag name].
applyConstraintsToElement(st, doc, item, c) ==
    LET targetElement ==
            IF item.kind = "name"
            THEN QueryDragName(st.currentScene[doc], item.v)
            ELSE item.v
        dragName == IF item.kind = "name" THEN item.v ELSE ElemInfo(item.v).name
    IN  IF targetElement = "" \/ dragName = "" THEN st
        ELSE
          LET s1 == [st EXCEPT !.documents[doc].constraints = Put(@, dragName, c)]
              shouldSnap == IF Has(c, "autoSnap") THEN c.autoSnap ELSE s1.defaults.autoSnap
          IN IF shouldSnap
             THEN [s1 EXCEPT !.snaps = Append(@, [doc |-> doc, el |-> targetElement])]
             ELSE s1

\* elements: a sequence of items (a single element or drag name is a sequence of one).
RECURSIVE setConstraintsFrom(_, _, _, _, _)
setConstraintsFrom(st, doc, elements, i, c) ==
    IF i > Len(elements) THEN st
    ELSE setConstraintsFrom(applyConstraintsToElement(st, doc, elements[i], c),
                            doc, elements, i + 1, c)

setConstraints(st, doc, elements, c) ==
    setConstraintsFrom(withRegistry(st, doc), doc, elements, 1, c)

\* The forEach of _applyDataAttributeConstraints that stores the collected
\* spec of every draggable, empty or not.
RECURSIVE dataAttributesStoreAllFrom(_, _, _, _)
dataAttributesStoreAllFrom(st, doc, draggableElements, i) ==
    IF i > Len(draggableElements) THEN st
    ELSE
      LET element == draggableElements[i]
          dragName == ElemInfo(element).name
          c == DataAttrs(element)
          s1 == [st EXCEPT !.documents[doc].constraints = Put(@, dragName, c)]
          elementAutoSnap ==
              IF AutoSnapAttr(element) = "unset" THEN s1.defaults.autoSnap
              ELSE AutoSnapAttr(element) = "true"
          s2 == IF elementAutoSnap /\ DOMAIN c # {}
                THEN [s1 EXCEPT !.snaps = Append(@, [doc |-> doc, el |-> element])]
                ELSE s1
      IN dataAttributesStoreAllFrom(s2, doc, draggableElements, i + 1)

\* The forEach of _applyDataAttributeConstraints over the scene's draggables.
RECURSIVE dataAttributesFrom(_, _, _, _)
dataAttributesFrom(st, doc, draggableElements, i) ==
    IF i > Len(draggableElements) THEN st
    ELSE
      LET element == draggableElements[i]
          dragName == ElemInfo(element).name
          c == DataAttrs(element)
          s1 == IF DOMAIN c # {}
                THEN [st EXCEPT !.documents[doc].constraints = Put(@, dragName, c)]
                ELSE st
          elementAutoSnap ==
              IF AutoSnapAttr(element) = "unset" THEN s1.defaults.autoSnap
              ELSE AutoSnapAttr(element) = "true"
          s2 == IF elementAutoSnap /\ DOMAIN c # {}
                THEN [s1 EXCEPT !.snaps = Append(@, [doc |-> doc, el |-> element])]
                ELSE s1
      IN dataAttributesFrom(s2, doc, draggableElements, i + 1)

applyDataAttributeConstraints(st, doc) ==
    LET s0 == withRegistry(st, doc)
        draggableElements ==
            SelectSeq(SceneSeq(s0.currentScene[doc]), LAMBDA e : ElemInfo(e).name # "")
    IN dataAttributesFrom(s0, doc, draggableElements, 1)

\* The forEach of resetDragState over the scope's draggables: unlock and remove
\* data-initial-left / data-initial-top.
RECURSIVE resetElementsFrom(_, _, _)
resetElementsFrom(st, allDraggables, i) ==
    IF i > Len(allDraggables) THEN st
    ELSE resetElementsFrom([unlock(st, allDraggables[i]) EXCEPT !.initAttr = Del(@, allDraggables[i])],
                           allDraggables, i + 1)

\* A reset that clears the interaction data but skips the loop over the draggables.
resetDragStateRegistryOnly(st, doc, sceneElement) ==
    [withRegistry(st, doc) EXCEPT !.documents[doc].interactionMap = <<>>,
                                  !.gameState[doc] = "empty"]

\* resetDragState(hypeDocument, sceneElement); the API default for the scope is
\* the current scene.
resetDragState(st, doc, sceneElement) ==
    LET allDraggables == SelectSeq(SceneSeq(sceneElement), LAMBDA e : ElemInfo(e).name # "")
        s1 == resetElementsFrom(st, allDraggables, 1)
        s2 == withRegistry(s1, doc)
    IN [s2 EXCEPT !.documents[doc].interactionMap = <<>>,
                  !.gameState[doc] = "empty"]

------------------------------------------------------------------------------
(* Host lifecycle hooks *)

HypeDocumentLoad(st, doc) == [st EXCEPT !.gameState[doc] = "empty"]

HypeScenePrepareForDisplay(st, doc) == applyDataAttributeConstraints(st, doc)

HypeSceneUnload(st, doc, sceneElement) ==
    IF st.defaults.resetOnSceneUnload THEN resetDragState(st, doc, sceneElement) ELSE st

setDefault(st, key, value) == [st EXCEPT !.defaults[key] = value]

------------------------------------------------------------------------------
(* Actions: one per operation of the API, per gesture phase, per deferred    *)
(* task and per host event.                                                  *)

Loaded(doc) == Has(documents, doc)

\* The elements of the document that are on display.
OnDisplay(doc) == {e \in DocElems(doc) : ElemInfo(e).scene = currentScene[doc]}

Coords == 0..MaxCoord
Pointer == 0..MaxPtr

\* Host event "document ready" followed by the first "scene about to display".
DocumentLoad(doc) ==
    /\ ~Loaded(doc)
    /\ Len(snaps) < MaxTimers
    /\ Commit(HypeScenePrepareForDisplay(HypeDocumentLoad(Begin(Cur, "load", doc, ""), doc), doc))

Start(doc, el, x, y) ==
    /\ Loaded(doc)
    /\ defaults.bringToFront => documents[doc].zCounter < ZBase + MaxRaise
    /\ Commit(handlerStart(Begin(Cur, "start", doc, el), doc, el, x, y))

\* The pointer stays where the proposed position is on the modelled stage.
Move(doc, el, x, y) ==
    /\ Loaded(doc)
    /\ LET dragName == ElemInfo(el).name
           dd == documents[doc].dragData
       IN Has(dd, dragName) =>
            /\ dd[dragName].initialLeft + (x - dd[dragName].startX) \in Coords
            /\ dd[dragName].initialTop + (y - dd[dragName].startY) \in Coords
    /\ Commit(handlerMove(Begin(Cur, "move", doc, el), doc, el, x, y))

\* The onDrop handler of the element starts a new drag.
Restarts(doc, el) ==
    /\ Has(documents[doc].interactionMap, ElemInfo(el).name)
    /\ documents[doc].interactionMap[ElemInfo(el).name].onDrop = "start"

End(doc, el, phase) ==
    /\ Loaded(doc)
    /\ Len(cleanups) < MaxTimers
    /\ (Restarts(doc, el) /\ defaults.bringToFront) => documents[doc].zCounter < ZBase + MaxRaise
    /\ (Has(documents[doc].interactionMap, ElemInfo(el).name)
          /\ documents[doc].interactionMap[ElemInfo(el).name].onDrop = "setConstraints")
            => Len(snaps) < MaxTimers
    /\ Commit(handlerEnd(Begin(Cur, phase, doc, el), doc, el))

\* The oldest pending cleanup task fires.
CleanupFire ==
    /\ cleanups # <<>>
    /\ LET task == Head(cleanups)
           s0 == [Begin(Cur, "cleanup", task.doc, "") EXCEPT !.cleanups = Tail(@)]
       IN Commit(cleanupTask(s0, task))

\* The oldest pending auto-snap task fires.
SnapFire ==
    /\ snaps # <<>>
    /\ LET task == Head(snaps)
           s0 == [Begin(Cur, "snapTask", task.doc, task.el) EXCEPT !.snaps = Tail(@)]
       IN Commit(applyAutoSnap(s0, task.doc, task.el))

SnapBack(doc, el) ==
    /\ Loaded(doc)
    /\ Commit(snapBack(Begin(Cur, "snapBack", doc, el), doc, el))

SnapTo(doc, el, destination) ==
    /\ Loaded(doc)
    /\ Commit(snapTo(Begin(Cur, "snapTo", doc, el), doc, el, destination))

AutoSnap(doc, el) ==
    /\ Loaded(doc)
    /\ LET s0 == [Begin(Cur, "autoSnap", doc, el)
                    EXCEPT !.last.again = (last.op = "autoSnap" /\ last.el = el)]
       IN Commit(applyAutoSnap(s0, doc, el))

Lock(doc, el) ==
    /\ Loaded(doc)
    /\ Commit(lock(Begin(Cur, "lock", doc, el), el))

Unlock(doc, el) ==
    /\ Loaded(doc)
    /\ Commit(unlock(Begin(Cur, "unlock", doc, el), el))

SetInteractionMap(doc, map) ==
    /\ Loaded(doc)
    /\ Commit(setInteractionMap(Begin(Cur, "setInteractionMap", doc, ""), doc, map))

SetConstraints(doc, elements, c) ==
    /\ Loaded(doc)
    /\ Len(snaps) + Len(elements) <= MaxTimers
    /\ Commit(setConstraints(Begin(Cur, "setConstraints", doc, ""), doc, elements, c))

\* resetState(sceneScope?): scope "" stands for the omitted argument.
ResetState(doc, scope) ==
    /\ Loaded(doc)
    /\ LET sceneElement == IF scope = "" THEN currentScene[doc] ELSE scope
       IN Commit(resetDragState(Begin(Cur, "resetState", doc, sceneElement), doc, sceneElement))

\* The host leaves the scene on display ("scene unloaded") and shows another
\* ("scene about to display").
ChangeScene(doc, to) ==
    /\ Loaded(doc)
    /\ to # currentScene[doc]
    /\ Len(snaps) < MaxTimers
    /\ LET s0 == HypeSceneUnload(Begin(Cur, "changeScene", doc, to), doc, currentScene[doc])
           s1 == [s0 EXCEPT !.currentScene[doc] = to]
       IN Commit(HypeScenePrepareForDisplay(s1, doc))

\* The host (a timeline, other user code) repositions an element without going
\* through the controller.
ExternalWrite(doc, el, l, t) ==
    /\ Loaded(doc)
    /\ Commit(writePosition(Begin(Cur, "external", doc, el), el, l, t))

\* User code stores scene data in hypeDocument.customData.gameState.
WriteGameState(doc) ==
    /\ Loaded(doc)
    /\ gameState[doc] # "dirty"
    /\ Commit([Begin(Cur, "writeGameState", doc, "") EXCEPT !.gameState[doc] = "dirty"])

SetDefault(key, value) ==
    /\ defaults[key] # value
    /\ Commit(setDefault(Begin(Cur, "setDefault", "", ""), key, value))

------------------------------------------------------------------------------
(* Specification of the session lifecycle: both documents, all operations,   *)
(* a fixed layout.                                                           *)

Box(l, t, w, h) == [left |-> l, top |-> t, width |-> w, height |-> h, z |-> 1]

Layout ==
    [e \in Elems |->
        CASE e \in SceneIds -> Box(0, 0, 4, 4)
          [] e = "p" -> Box(0, 0, 3, 3)
          [] e = "a" -> Box(1, 1, 1, 1)
          [] e = "b" -> Box(2, 0, 1, 1)
          [] e = "r" -> Box(1, 0, 2, 2)
          [] OTHER -> Box(0, 0, 1, 1)]

InitWith(layout) ==
    /\ documents = <<>>
    /\ prop = layout
    /\ locked = [e \in Elems |-> FALSE]
    /\ initAttr = <<>>
    /\ currentScene = [d \in Docs |-> IF d = "d1" THEN "s1" ELSE "t1"]
    /\ defaults = [bringToFront |-> TRUE, resetOnSceneUnload |-> FALSE, autoSnap |-> FALSE]
    /\ gameState = [d \in Docs |-> "unset"]
    /\ cleanups = <<>>
    /\ snaps = <<>>
    /\ zLog = [d \in Docs |-> <<>>]
    /\ last = Op("init", "", "")

Init == InitWith(Layout)

\* Handler records and interaction maps the user installs.
Noop == [onStart |-> "noop", onProgress |-> "noop", onDrop |-> "noop"]
Back == [onStart |-> "none", onProgress |-> "none", onDrop |-> "snapBack"]
Maps == {<<>>, [A |-> Noop], [A |-> Back]}

Next ==
    \/ DocumentLoad("d1")
    \/ \E x \in Pointer : Start("d1", "a", x, 0)
    \/ \E x \in Pointer : Move("d1", "a", x, 0)
    \/ \E phase \in {"end", "cancel"} : End("d1", "a", phase)
    \/ CleanupFire
    \/ SnapBack("d1", "a")
    \/ \E map \in Maps : SetInteractionMap("d1", map)
    \/ ResetState("d1", "")

Spec == Init /\ [][Next]_vars

------------------------------------------------------------------------------
(* Session lifecycle claims *)

\* The session map of the document the last operation concerned.
LastData == IF Has(documents, last.doc) THEN documents[last.doc].dragData ELSE <<>>

\* A cleanup task of the identifier that no later start has made stale is pending.
FreshCleanupPending(doc, dragName) ==
    \E i \in DOMAIN cleanups :
        cleanups[i].doc = doc /\ cleanups[i].name = dragName /\ ~cleanups[i].stale

\* C1: a deferred delete never removes a session created by a later start: after a
\* cleanup task fires that was scheduled before the latest start of its identifier,
\* the session of that start is still in the registry, and still active unless an
\* end/cancel followed that start (whose own cleanup task is then still pending).
C1_StaleCleanupKeepsSession ==
    (last.op = "cleanup" /\ last.stale) =>
        /\ Has(LastData, last.name)
        /\ ~FreshCleanupPending(last.doc, last.name) => LastData[last.name].isActive

\* C6: a move is processed only while the session of its identifier is active: a
\* move that wrote a position or invoked onProgress found an active session.
C6_MoveOnlyWhileActive ==
    (last.op = "move" /\ (last.wrote \/ last.cb # "none")) =>
        (Has(LastData, last.name) /\ LastData[last.name].isActive)

\* C7: after an end/cancel the session stays readable (present, inactive) until
\* the cleanup task scheduled by that same end has fired; once it has fired the
\* session is erased, and a snapBack that finds no session writes no geometry.
C7_SessionUntilOwnCleanup ==
    /\ \A i \in DOMAIN cleanups :
          ~cleanups[i].stale =>
              /\ Has(documents[cleanups[i].doc].dragData, cleanups[i].name)
              /\ ~documents[cleanups[i].doc].dragData[cleanups[i].name].isActive
    /\ last.op = "cleanup" => ~Has(LastData, last.name)
    /\ (last.op = "snapBack" /\ ~Has(LastData, last.name)) => ~last.wrote

\* C8: immediately after resetState the registry of the document holds no
\* sessions, no constraint specs and no interaction handlers.
C8_ResetClearsRegistry ==
    last.op = "resetState" =>
        /\ documents[last.doc].dragData = <<>>
        /\ documents[last.doc].constraints = <<>>
        /\ documents[last.doc].interactionMap = <<>>

------------------------------------------------------------------------------
(* Specification of the stacking order: drags of three elements of one        *)
(* document over two scenes (bringToFront enabled, the default), interleaved *)
(* with moves, ends, snapBack, resetState and scene changes.                 *)

NextStack ==
    \/ DocumentLoad("d1")
    \/ \E el \in {"a", "b", "c"} : el \in OnDisplay("d1") /\ Start("d1", el, 0, 0)
    \/ Move("d1", "a", 1, 0)
    \/ \E phase \in {"end", "cancel"} : End("d1", "a", phase)
    \/ CleanupFire
    \/ SnapBack("d1", "a")
    \/ ResetState("d1", "")
    \/ \E to \in DocScenes("d1") : ChangeScene("d1", to)

SpecStack == Init /\ [][NextStack]_vars

\* C10: the stacking values assigned by successive drag starts within one document
\* are strictly increasing in start order.
C10_StackingStrictlyIncreasing ==
    \A doc \in Docs : \A i, j \in DOMAIN zLog[doc] :
        i < j => zLog[doc][i] < zLog[doc][j]

\* Three elements E1, E2, E3 were raised one after the other, the last one after a
\* scene change, and carry the three values assigned, in that order.
C10_Witness ==
    /\ Len(zLog["d1"]) = 3
    /\ prop["a"].z = zLog["d1"][1]
    /\ prop["b"].z = zLog["d1"][2]
    /\ prop["c"].z = zLog["d1"][3]

------------------------------------------------------------------------------
(* Specification of locks and cached baselines: lock, unlock, drags and       *)
(* auto-snaps of elements of two scenes (a and its container p, which bears  *)
(* no drag identifier, in s1; c in s2), and resets of either scene.          *)

NextReset ==
    \/ DocumentLoad("d1")
    \/ \E el \in {"a", "c", "p"} : Lock("d1", el)
    \/ \E el \in {"a", "c", "p"} : Unlock("d1", el)
    \/ \E el \in {"a", "c"} : el \in OnDisplay("d1") /\ Start("d1", el, 0, 0)
    \/ SetConstraints("d1", <<[kind |-> "element", v |-> "a"]>>, [minX |-> 2])
    \/ AutoSnap("d1", "a")
    \/ \E scope \in {"", "s1", "s2"} : ResetState("d1", scope)
    \/ \E to \in DocScenes("d1") : ChangeScene("d1", to)

SpecReset == Init /\ [][NextReset]_vars

------------------------------------------------------------------------------
(* Specification of the constraint resolver: one draggable (a, inside the     *)
(* container p, beside the region r) under every spec of GeomSpecs, in every *)
(* layout of GeomLayouts, dragged and auto-snapped.                          *)

\* Sizes of the element and of its container: a container that holds the
\* element with room to move, and one narrower than the element.
GeomLayouts ==
    {[Layout EXCEPT !["a"] = Box(1, 1, sz[1], sz[2]), !["p"] = Box(0, 0, sz[3], sz[4])] :
        sz \in {<<1, 1, 3, 3>>, <<2, 2, 1, 3>>}}

\* No bounds; a box; an empty X range (minX > maxX) with a lone maxY.
BoundParts ==
    {<<>>, [minX |-> 1, maxX |-> 2, minY |-> 1, maxY |-> 2],
     [minX |-> 2, maxX |-> 1, maxY |-> 1]}
AxisParts == {<<>>, [axis |-> "x"], [axis |-> "y"]}
WithinParts == {<<>>, [within |-> "parent"], [within |-> ".region"], [within |-> ".missing"]}
GeomSpecs == {b @@ x @@ w : b \in BoundParts, x \in AxisParts, w \in WithinParts}

GeomPointer == 0..(MaxPtr + 1)

InitGeom == \E layout \in GeomLayouts : InitWith(layout)

NextGeom ==
    \/ DocumentLoad("d1")
    \/ \E c \in GeomSpecs :
          /\ Loaded("d1")
          /\ ~Has(documents["d1"].constraints, "A")
          /\ SetConstraints("d1", <<[kind |-> "element", v |-> "a"]>>, c)
    \/ Start("d1", "a", 1, 1)
    \/ \E x, y \in GeomPointer : Move("d1", "a", x, y)
    \/ AutoSnap("d1", "a")

SpecGeom == InitGeom /\ [][NextGeom]_vars

\* The stored spec of the draggable, its session, and what the last move wrote.
HasGeomSpec == Loaded("d1") /\ Has(documents["d1"].constraints, "A")
GeomSpec == documents["d1"].constraints["A"]
GeomSession == documents["d1"].dragData["A"]
MoveWrote == last.op = "move" /\ last.el = "a" /\ last.wrote /\ HasGeomSpec
AxisIs(c, axis) == Has(c, "axis") /\ c.axis = axis

\* The region a spec's within stands for on the stage, as a rectangle of
\* allowed left/top values; none = FALSE when the spec has no within or its
\* selector matches nothing.
NoRegion == [none |-> TRUE, minX |-> 0, maxX |-> 0, minY |-> 0, maxY |-> 0]
RegionOf(c) ==
    IF ~Has(c, "within") THEN NoRegion
    ELSE IF c.within = "parent"
    THEN [none |-> FALSE,
          minX |-> 0, maxX |-> prop["p"].width - prop["a"].width,
          minY |-> 0, maxY |-> prop["p"].height - prop["a"].height]
    ELSE IF c.within = ".region"
    THEN [none |-> FALSE,
          minX |-> prop["r"].left, maxX |-> prop["r"].left + prop["r"].width - prop["a"].width,
          minY |-> prop["r"].top, maxY |-> prop["r"].top + prop["r"].height - prop["a"].height]
    ELSE NoRegion

\* Every bound the spec sets holds of the position (l, t).
WithinSetBounds(c, l, t) ==
    /\ Has(c, "minX") => c.minX <= l
    /\ Has(c, "maxX") => l <= c.maxX
    /\ Has(c, "minY") => c.minY <= t
    /\ Has(c, "maxY") => t <= c.maxY

\* C2 as stated: the left/top written by every move on an element with a stored
\* spec satisfy every bound the spec sets, whatever axis and within it carries and
\* whatever the session baseline is.
C2_MoveWithinBounds ==
    MoveWrote => WithinSetBounds(GeomSpec, last.wl, last.wt)

\* C2 amended: on a coordinate that the spec's axis lock does not pin, and when
\* the spec's within resolves to no region, the coordinate written by every move
\* is at most the upper bound if set, and at least the lower bound if set unless
\* the upper bound is set below it (then it equals the upper bound).
C2_MoveWithinBoundsWhenNothingOverrides ==
    MoveWrote /\ RegionOf(GeomSpec).none =>
        LET c == GeomSpec
        IN  /\ ~AxisIs(c, "y") =>
                /\ Has(c, "maxX") => last.wl <= c.maxX
                /\ Has(c, "minX") =>
                      IF Has(c, "maxX") /\ c.maxX < c.minX
                      THEN last.wl = c.maxX ELSE c.minX <= last.wl
            /\ ~AxisIs(c, "x") =>
                /\ Has(c, "maxY") => last.wt <= c.maxY
                /\ Has(c, "minY") =>
                      IF Has(c, "maxY") /\ c.maxY < c.minY
                      THEN last.wt = c.maxY ELSE c.minY <= last.wt

\* A move from the right edge of a consistent box proposed a position outside
\* it and was clamped back onto the edge.
C2_Witness ==
    /\ MoveWrote /\ last.clamped
    /\ RegionOf(GeomSpec).none /\ ~Has(GeomSpec, "axis")
    /\ Has(GeomSpec, "minX") /\ Has(GeomSpec, "maxX") /\ GeomSpec.minX <= GeomSpec.maxX
    /\ last.wl = GeomSpec.maxX /\ last.wl = GeomSession.initialLeft

\* C3 as stated: with axis = "x" the top written by every move equals the
\* session's baseline top, with axis = "y" the left equals the baseline left,
\* whatever bounds and within the spec carries.
C3_AxisPinsToBaseline ==
    MoveWrote =>
        /\ AxisIs(GeomSpec, "x") => last.wt = GeomSession.initialTop
        /\ AxisIs(GeomSpec, "y") => last.wl = GeomSession.initialLeft

\* C3 amended: the locked coordinate written by every move equals the session's
\* baseline, clamped into the within-region when the spec's within resolves to
\* one (max(regionMin, min(baseline, regionMax))).
C3_AxisPinsToBaselineInRegion ==
    MoveWrote =>
        LET c == GeomSpec
            g == RegionOf(c)
        IN  /\ AxisIs(c, "x") =>
                last.wt = IF g.none THEN GeomSession.initialTop
                          ELSE Max(g.minY, Min(GeomSession.initialTop, g.maxY))
            /\ AxisIs(c, "y") =>
                last.wl = IF g.none THEN GeomSession.initialLeft
                          ELSE Max(g.minX, Min(GeomSession.initialLeft, g.maxX))

\* A move under a bare axis = "x" spec whose pointer went sideways and down: the
\* left changed, the proposed top was replaced by the baseline top.
C3_Witness ==
    /\ MoveWrote /\ last.clamped
    /\ AxisIs(GeomSpec, "x") /\ DOMAIN GeomSpec = {"axis"}
    /\ last.wl # GeomSession.initialLeft
    /\ last.wt = GeomSession.initialTop

\* C4 as stated: with within = "parent" the left written by every move lies in
\* [0, containerWidth - elementWidth] and the top in [0, containerHeight -
\* elementHeight], for every container and element size.
C4_MoveInsideParent ==
    MoveWrote /\ Has(GeomSpec, "within") /\ GeomSpec.within = "parent" =>
        /\ 0 <= last.wl /\ last.wl <= prop["p"].width - prop["a"].width
        /\ 0 <= last.wt /\ last.wt <= prop["p"].height - prop["a"].height

\* C4 amended: with within = "parent" the left written by every move lies in
\* [0, containerWidth - elementWidth] when the container is at least as wide as
\* the element and is 0 when it is narrower; the same for top and the heights.
C4_MoveInsideParentOrAtOrigin ==
    MoveWrote /\ Has(GeomSpec, "within") /\ GeomSpec.within = "parent" =>
        LET roomX == prop["p"].width - prop["a"].width
            roomY == prop["p"].height - prop["a"].height
        IN  /\ IF roomX >= 0 THEN 0 <= last.wl /\ last.wl <= roomX ELSE last.wl = 0
            /\ IF roomY >= 0 THEN 0 <= last.wt /\ last.wt <= roomY ELSE last.wt = 0

\* A move under a bare within = "parent" spec proposed a position beyond the
\* container's right edge and was clamped onto it.
C4_Witness ==
    /\ MoveWrote /\ last.clamped
    /\ DOMAIN GeomSpec = {"within"} /\ GeomSpec.within = "parent"
    /\ prop["p"].width - prop["a"].width > 0
    /\ last.wl = prop["p"].width - prop["a"].width

------------------------------------------------------------------------------
(* Specification of auto-snap: the same draggable in the fixed layout, under  *)
(* specs that some position satisfies (consistent bounds that meet the        *)
(* region, a container larger than the element), dragged and auto-snapped.    *)

SnapSpecs ==
    {b @@ x @@ w : b \in {<<>>, [minX |-> 1, maxX |-> 2, minY |-> 1, maxY |-> 2]},
                   x \in AxisParts,
                   w \in {<<>>, [within |-> "parent"], [within |-> ".region"]}}

NextSnap ==
    \/ DocumentLoad("d1")
    \/ \E c \in SnapSpecs :
          /\ Loaded("d1")
          /\ ~Has(documents["d1"].constraints, "A")
          /\ SetConstraints("d1", <<[kind |-> "element", v |-> "a"]>>, c)
    \/ Start("d1", "a", 1, 1)
    \/ \E x, y \in GeomPointer : Move("d1", "a", x, y)
    \/ AutoSnap("d1", "a")

SpecSnap == Init /\ [][NextSnap]_vars

\* C5 as stated: after autoSnap on an element with a stored spec, the element's
\* position satisfies every bound the spec sets and lies inside the resolved
\* within-region if there is one, whatever the position was before the call.
C5_AutoSnapSatisfiesSpec ==
    last.op = "autoSnap" /\ last.el = "a" /\ HasGeomSpec =>
        LET g == RegionOf(GeomSpec)
        IN  /\ WithinSetBounds(GeomSpec, prop["a"].left, prop["a"].top)
            /\ ~g.none =>
                  /\ g.minX <= prop["a"].left /\ prop["a"].left <= g.maxX
                  /\ g.minY <= prop["a"].top /\ prop["a"].top <= g.maxY

------------------------------------------------------------------------------
(* Specification of the drop-target resolver: the draggable b, itself marked  *)
(* as a drop target, dragged over the targets p and r (enumerated p, b, r)   *)
(* and dropped, in every layout of DropLayouts.                              *)

\* Sizes of the dragged element: a unit square, a square that can overlap two
\* targets by different areas, and an element of width 0.
DropLayouts ==
    {[Layout EXCEPT !["b"] = Box(2, 0, sz[1], sz[2]), !["p"] = Box(0, 0, 2, 2)] :
        sz \in {<<1, 1>>, <<2, 2>>, <<0, 1>>}}

InitDrop == \E layout \in DropLayouts : InitWith(layout)

NextDrop ==
    \/ DocumentLoad("d1")
    \/ Start("d1", "b", 1, 1)
    \/ \E x, y \in GeomPointer : Move("d1", "b", x, y)
    \/ \E phase \in {"end", "cancel"} : End("d1", "b", phase)
    \/ CleanupFire

SpecDrop == InitDrop /\ [][NextDrop]_vars

\* The last operation was an end/cancel that resolved a drop target.
Dropped == last.op \in {"end", "cancel"} /\ last.target # "unset"

\* The drop-target candidates of a dragged element, the intersection test and
\* the overlap area of two boxes, and the place of an element in the
\* enumeration order.
Candidates(el) ==
    {t \in Elems \ SceneIds :
        /\ ElemInfo(t).doc = ElemInfo(el).doc
        /\ ElemInfo(t).scene = currentScene[ElemInfo(el).doc]
        /\ ElemInfo(t).target /\ t # el}
Intersects(d, t) ==
    /\ prop[d].left < prop[t].left + prop[t].width
    /\ prop[t].left < prop[d].left + prop[d].width
    /\ prop[d].top < prop[t].top + prop[t].height
    /\ prop[t].top < prop[d].top + prop[d].height
OverlapArea(d, t) ==
    LET w == Min(prop[d].left + prop[d].width, prop[t].left + prop[t].width)
               - Max(prop[d].left, prop[t].left)
        h == Min(prop[d].top + prop[d].height, prop[t].top + prop[t].height)
               - Max(prop[d].top, prop[t].top)
    IN Max(0, w) * Max(0, h)
OrderOf(e) == CHOOSE i \in DOMAIN ElemOrder : ElemOrder[i] = e

\* got is the first, in enumeration order, of the members of set with the
\* largest overlap area with el.
FirstLargest(got, set, el) ==
    /\ got \in set
    /\ \A u \in set :
          /\ OverlapArea(el, u) <= OverlapArea(el, got)
          /\ OverlapArea(el, u) = OverlapArea(el, got) => OrderOf(got) <= OrderOf(u)

\* C11 as stated: among the candidates that intersect the dragged box the
\* resolver returns the one with the largest overlap area, the first in
\* enumeration order when several share it.
C11_LargestOverlapFirstOnTies ==
    Dropped =>
        LET hit == {t \in Candidates(last.el) : Intersects(last.el, t)}
        IN hit # {} => FirstLargest(last.target, hit, last.el)

\* C11 amended: among the candidates that intersect the dragged box with an
\* overlap area greater than 0 the resolver returns the one with the largest
\* overlap area, the first in enumeration order when several share it.
C11_LargestPositiveOverlapFirstOnTies ==
    Dropped =>
        LET hit == {t \in Candidates(last.el) :
                        Intersects(last.el, t) /\ OverlapArea(last.el, t) > 0}
        IN hit # {} => FirstLargest(last.target, hit, last.el)

\* A drop over two targets overlapped by the same positive area returned the
\* first of them in enumeration order (p).
C11_Witness ==
    /\ Dropped /\ last.el = "b"
    /\ Intersects("b", "p") /\ Intersects("b", "r")
    /\ OverlapArea("b", "p") > 0 /\ OverlapArea("b", "p") = OverlapArea("b", "r")
    /\ last.target = "p"

\* C12 as stated: the resolver returns null exactly when no candidate other
\* than the dragged element passes the intersection test, and never returns
\* the dragged element.
C12_NullIffNoIntersection ==
    Dropped =>
        /\ last.target = "" <=> \A t \in Candidates(last.el) : ~Intersects(last.el, t)
        /\ last.target # last.el

\* C12 amended: the resolver returns null exactly when no candidate other than
\* the dragged element passes the intersection test with an overlap area
\* greater than 0, and never returns the dragged element.
C12_NullIffNoPositiveOverlap ==
    Dropped =>
        /\ last.target = "" <=>
              \A t \in Candidates(last.el) :
                  ~(Intersects(last.el, t) /\ OverlapArea(last.el, t) > 0)
        /\ last.target # last.el

\* A drop of b, which carries the drop-target marker and has a positive size,
\* away from p and r returned null.
C12_Witness ==
    /\ Dropped /\ last.el = "b" /\ ElemInfo("b").target
    /\ prop["b"].width > 0 /\ prop["b"].height > 0
    /\ last.target = ""

------------------------------------------------------------------------------
(* Auto-snap applied twice, under SpecGeom: every spec of GeomSpecs, every    *)
(* layout of GeomLayouts, every position a drag can leave the element at.    *)

\* C13: an autoSnap applied right after an autoSnap of the same element under
\* the same stored spec leaves left/top as the first left them and performs no
\* geometry write.
C13_AutoSnapIdempotent ==
    [][(last'.op = "autoSnap" /\ last'.again /\ HasGeomSpec) =>
          (prop' = prop /\ ~last'.wrote /\ initAttr' = initAttr)]_vars

\* A second autoSnap has run after a first one that moved the element, which
\* was never dragged (its cached baseline was written by the first autoSnap).
C13_Witness ==
    /\ last.op = "autoSnap" /\ last.again /\ HasGeomSpec
    /\ ~Has(documents["d1"].dragData, "A") /\ Has(initAttr, "a")
    /\ initAttr["a"] = <<prop["a"].left, prop["a"].top>>
    /\ initAttr["a"] # <<1, 1>>

------------------------------------------------------------------------------
(* Gesture events without effect, under Spec.                                *)

\* What an ignored handler call leaves alone: the registry, the geometry, the
\* pending tasks; and it attaches no dropTarget and invokes no callback.
Ignored ==
    /\ documents' = documents /\ prop' = prop /\ initAttr' = initAttr
    /\ cleanups' = cleanups /\ snaps' = snaps
    /\ ~last'.wrote /\ last'.cb = "none" /\ last'.target = "unset"

\* C14: an end or cancel for an identifier whose session has already ended and
\* is still in the registry changes no registry state, attaches no dropTarget,
\* invokes no callback and schedules nothing; so each started session has at
\* most one onDrop and at most one cleanup task (of the tasks pending for an
\* identifier at most one was scheduled since its latest start).
C14_SecondEndIsNoOp ==
    /\ [](\A i, j \in DOMAIN cleanups :
            (i # j /\ cleanups[i].doc = cleanups[j].doc /\ cleanups[i].name = cleanups[j].name)
                => (cleanups[i].stale \/ cleanups[j].stale))
    /\ [][(/\ last'.op \in {"end", "cancel"}
           /\ Has(documents, last'.doc)
           /\ Has(documents[last'.doc].dragData, last'.name)
           /\ ~documents[last'.doc].dragData[last'.name].isActive) => Ignored]_vars

\* A second end/cancel has run while the ended session was still in the
\* registry with its cleanup pending and an onDrop handler installed.
C14_Witness ==
    /\ last.op \in {"end", "cancel"} /\ last.target = "unset" /\ last.cb = "none"
    /\ Has(LastData, last.name) /\ ~LastData[last.name].isActive
    /\ FreshCleanupPending(last.doc, last.name)
    /\ Has(documents[last.doc].interactionMap, last.name)
    /\ documents[last.doc].interactionMap[last.name].onDrop # "none"

\* C15: a move, end or cancel for an identifier that has no session in the
\* registry (never started, or already cleaned up) writes no geometry, invokes
\* no callback, schedules no cleanup and leaves the registry unchanged.
C15_NoSessionEventIgnored ==
    [][(/\ last'.op \in {"move", "end", "cancel"}
        /\ Has(documents, last'.doc)
        /\ ~Has(documents[last'.doc].dragData, last'.name)) => Ignored]_vars

\* A move has been handled after the session of an earlier drag was cleaned
\* up, with an onProgress handler installed.
C15_Witness ==
    /\ last.op = "move" /\ ~last.wrote
    /\ ~Has(LastData, last.name)
    /\ zLog[last.doc] # <<>> /\ cleanups = <<>>
    /\ Has(documents[last.doc].interactionMap, last.name)
    /\ documents[last.doc].interactionMap[last.name].onProgress # "none"

------------------------------------------------------------------------------
(* Specification of repeated drags: drag cycles of a, between which it is     *)
(* repositioned by moves, snapBack, snapTo (onto b), autoSnap (under minX =   *)
(* 2) and writes of the host.                                                *)

NextDrift ==
    \/ DocumentLoad("d1")
    \/ Start("d1", "a", 1, 0)
    \/ \E x \in Pointer : Move("d1", "a", x, 0)
    \/ End("d1", "a", "end")
    \/ CleanupFire
    \/ SnapBack("d1", "a")
    \/ SnapTo("d1", "a", [kind |-> "element", v |-> "b"])
    \/ /\ Loaded("d1")
       /\ ~Has(documents["d1"].constraints, "A")
       /\ SetConstraints("d1", <<[kind |-> "element", v |-> "a"]>>, [minX |-> 2])
    \/ AutoSnap("d1", "a")
    \/ ExternalWrite("d1", "a", 0, 0)

SpecDrift == Init /\ [][NextDrift]_vars

\* C16: the baseline left/top a start stores are the element's live left/top at
\* that instant, however the element was positioned before; and a move whose
\* pointer position equals the pointer-down position, on an element without
\* stored spec, writes the baseline.
C16_BaselineIsLivePosition ==
    [][/\ (last'.op = "start" /\ last'.el = "a") =>
            /\ documents'["d1"].dragData["A"].initialLeft = prop["a"].left
            /\ documents'["d1"].dragData["A"].initialTop = prop["a"].top
            /\ prop'["a"].left = prop["a"].left /\ prop'["a"].top = prop["a"].top
       /\ \A x \in Pointer :
            (/\ Move("d1", "a", x, 0)
             /\ Has(documents["d1"].dragData, "A")
             /\ ~Has(documents["d1"].constraints, "A")
             /\ x = documents["d1"].dragData["A"].startX
             /\ 0 = documents["d1"].dragData["A"].startY) =>
                /\ prop'["a"].left = documents["d1"].dragData["A"].initialLeft
                /\ prop'["a"].top = documents["d1"].dragData["A"].initialTop]_vars

\* A later drag of a has started after a was put on b's position (by snapTo),
\* away from the baseline cached by the earlier start.
C16_Witness ==
    /\ last.op = "start" /\ last.el = "a"
    /\ Len(zLog["d1"]) >= 2
    /\ prop["a"].left = prop["b"].left /\ prop["a"].top = prop["b"].top
    /\ documents["d1"].dragData["A"].initialLeft = prop["a"].left
    /\ documents["d1"].dragData["A"].initialTop = prop["a"].top

------------------------------------------------------------------------------
(* Specification of calls on an element without drag identifier (n): gesture  *)
(* events, setConstraints on n alone and in an array with a, lock and unlock, *)
(* next to drags of a.                                                       *)

IdentSpec == [minX |-> 2, autoSnap |-> TRUE]
Nameless == <<[kind |-> "element", v |-> "n"]>>
NamelessFirst == <<[kind |-> "element", v |-> "n"], [kind |-> "element", v |-> "a"]>>

NextIdent ==
    \/ DocumentLoad("d1")
    \/ \E el \in {"a", "n"}, x \in Pointer : Start("d1", el, x, 0)
    \/ \E el \in {"a", "n"}, x \in Pointer : Move("d1", el, x, 0)
    \/ \E phase \in {"end", "cancel"} : End("d1", "n", phase)
    \/ \E elements \in {Nameless, NamelessFirst} : SetConstraints("d1", elements, IdentSpec)
    \/ SnapFire
    \/ Lock("d1", "n")
    \/ Unlock("d1", "n")

SpecIdent == Init /\ [][NextIdent]_vars

\* C17: a handler call (any phase) on an element without drag identifier
\* creates or changes no session, does not advance the stacking counter,
\* writes no geometry and invokes no callback; setConstraints on such an
\* element, alone or as a member of an array, stores no constraint and
\* schedules no auto-snap for it (the other members are processed).
C17_MissingIdentifierSkipped ==
    [][/\ (last'.op \in {"start", "move", "end", "cancel"} /\ last'.name = "") =>
            (Ignored /\ zLog' = zLog)
       /\ SetConstraints("d1", Nameless, IdentSpec) =>
            (documents' = documents /\ snaps' = snaps /\ prop' = prop)
       /\ SetConstraints("d1", NamelessFirst, IdentSpec) =>
            /\ documents' = [documents EXCEPT !["d1"].constraints = Put(@, "A", IdentSpec)]
            /\ snaps' = Append(snaps, [doc |-> "d1", el |-> "a"])
            /\ prop' = prop]_vars

\* A start on n has been handled while a session of a is in the registry, and
\* the only stored spec is that of a.
C17_Witness ==
    /\ last.op = "start" /\ last.el = "n"
    /\ DOMAIN documents["d1"].dragData = {"A"}
    /\ DOMAIN documents["d1"].constraints = {"A"}
    /\ \A i \in DOMAIN snaps : snaps[i].el = "a"

\* C18: lock or unlock on an element without drag identifier is skipped: the
\* locked state of every element is unchanged.
C18_LockSkipsNameless ==
    [][(last'.op \in {"lock", "unlock"} /\ last'.name = "") => locked' = locked]_vars

------------------------------------------------------------------------------
(* Specification of gestures on a locked element: a is locked and unlocked,   *)
(* and start, move, end events for it are delivered to the handler.          *)

NextLock ==
    \/ DocumentLoad("d1")
    \/ Lock("d1", "a")
    \/ Unlock("d1", "a")
    \/ \E x \in Pointer : Start("d1", "a", x, 0)
    \/ \E x \in Pointer : Move("d1", "a", x, 0)
    \/ End("d1", "a", "end")
    \/ CleanupFire
    \/ SetInteractionMap("d1", [A |-> Noop])
    \/ ResetState("d1", "")

SpecLock == Init /\ [][NextLock]_vars

\* C19: a start delivered to the handler for an element that is locked creates
\* no session, raises no stacking value and invokes no onStart, and a move
\* for it writes no position.
C19_LockedGestureIgnored ==
    [][(locked["a"] /\ last'.op \in {"start", "move"} /\ last'.el = "a") =>
          (Ignored /\ zLog' = zLog)]_vars

------------------------------------------------------------------------------
(* snapBack: one draggable element, the bringToFront default switched on    *)
(* and off between the operations.                                           *)

NextBack ==
    \/ DocumentLoad("d1")
    \/ \E x \in Pointer : Start("d1", "a", x, 0)
    \/ \E x \in Pointer : Move("d1", "a", x, 0)
    \/ End("d1", "a", "end")
    \/ CleanupFire
    \/ SnapBack("d1", "a")
    \/ \E value \in BOOLEAN : SetDefault("bringToFront", value)

SpecBack == Init /\ [][NextBack]_vars

\* A start of a stores the left, top and stacking value a had before it.
StartReadsBaseline ==
    (last'.op = "start" /\ last'.el = "a") =>
        /\ documents'["d1"].dragData["A"].initialLeft = prop["a"].left
        /\ documents'["d1"].dragData["A"].initialTop = prop["a"].top
        /\ documents'["d1"].dragData["A"].initialZ = prop["a"].z

\* No operation other than a start changes the baseline of a session.
BaselineKept ==
    (/\ last'.op # "start"
     /\ Has(documents, "d1")
     /\ Has(documents["d1"].dragData, "A")
     /\ Has(documents'["d1"].dragData, "A")) =>
        /\ documents'["d1"].dragData["A"].initialLeft = documents["d1"].dragData["A"].initialLeft
        /\ documents'["d1"].dragData["A"].initialTop = documents["d1"].dragData["A"].initialTop
        /\ documents'["d1"].dragData["A"].initialZ = documents["d1"].dragData["A"].initialZ

\* C20: a snapBack of an element whose identifier has a session (active, or
\* ended and not yet cleaned up) sets left/top to the baseline of that session
\* and, bringToFront being enabled, the stacking value to its baseline
\* stacking value; without a session it writes no geometry. The baseline is
\* what the start read (left, top, and the stacking value before the raise)
\* and no later operation changes it.
C20_SnapBackRestoresBaseline ==
    /\ [](last.op = "snapBack" =>
            (IF Has(LastData, last.name)
             THEN /\ last.wrote
                  /\ last.wl = LastData[last.name].initialLeft
                  /\ last.wt = LastData[last.name].initialTop
                  /\ prop[last.el].left = last.wl /\ prop[last.el].top = last.wt
                  /\ (defaults.bringToFront => prop[last.el].z = LastData[last.name].initialZ)
             ELSE ~last.wrote))
    /\ [][StartReadsBaseline /\ BaselineKept]_vars

\* A snapBack has run on an ended session that is still in the registry and
\* has undone the raise of its start.
C20_Witness ==
    /\ last.op = "snapBack" /\ last.wrote
    /\ Has(LastData, last.name) /\ ~LastData[last.name].isActive
    /\ defaults.bringToFront /\ zLog[last.doc] # <<>>
    /\ prop[last.el].z = LastData[last.name].initialZ
    /\ prop[last.el].z < zLog[last.doc][Len(zLog[last.doc])]

------------------------------------------------------------------------------
(* Specification of snapTo: a, with or without session and stored spec, is    *)
(* snapped to an element (b), to a selector that matches r in scene s1 only,  *)
(* and to a selector that matches nothing, while the host moves r and        *)
(* changes the scene.                                                        *)

SnapDests ==
    {[kind |-> "element", v |-> "b"], [kind |-> "selector", v |-> ".region"],
     [kind |-> "selector", v |-> ".missing"]}

NextTo ==
    \/ DocumentLoad("d1")
    \/ Start("d1", "a", 0, 0)
    \/ Move("d1", "a", 1, 0)
    \/ End("d1", "a", "end")
    \/ CleanupFire
    \/ \E destination \in SnapDests : SnapTo("d1", "a", destination)
    \/ /\ Loaded("d1")
       /\ ~Has(documents["d1"].constraints, "A")
       /\ SetConstraints("d1", <<[kind |-> "element", v |-> "a"]>>, [maxX |-> 0])
    \/ ExternalWrite("d1", "r", 3, 2)
    \/ \E to \in DocScenes("d1") : ChangeScene("d1", to)

SpecTo == Init /\ [][NextTo]_vars

\* The element a destination of SnapDests stands for: b; r for ".region" while
\* scene s1 is on display; none ("") otherwise.
DestOf(destination) ==
    IF destination.kind = "element" THEN destination.v
    ELSE IF destination.v = ".region" /\ currentScene["d1"] = "s1" THEN "r"
    ELSE ""

\* C21: snapTo sets the element's left/top to the destination's current
\* left/top when the destination is an element or a selector that resolves in
\* the scene on display, and writes no geometry when the selector resolves to
\* nothing; in every case the element's stacking value, the sessions, the
\* constraints and the stacking counter (the whole registry), every other
\* element and the stored spec's bounds are left alone.
C21_SnapToDestination ==
    [][\A destination \in SnapDests :
          SnapTo("d1", "a", destination) =>
              /\ documents' = documents
              /\ zLog' = zLog /\ cleanups' = cleanups /\ snaps' = snaps
              /\ IF DestOf(destination) # ""
                 THEN /\ last'.wrote
                      /\ prop' = [prop EXCEPT !["a"].left = prop[DestOf(destination)].left,
                                              !["a"].top = prop[DestOf(destination)].top]
                 ELSE ~last'.wrote /\ prop' = prop]_vars

\* A snapTo by selector has put a, whose session is active and raised and whose
\* stored spec caps left at 0, onto r after the host had moved r.
C21_Witness ==
    /\ last.op = "snapTo" /\ last.wrote
    /\ prop["r"].left = 3 /\ prop["r"].top = 2 /\ prop["b"].left # 3
    /\ prop["a"].left = 3 /\ prop["a"].top = 2
    /\ Has(documents["d1"].dragData, "A") /\ documents["d1"].dragData["A"].isActive
    /\ Has(documents["d1"].constraints, "A")
    /\ prop["a"].z = documents["d1"].zCounter /\ prop["a"].z > ZBase

------------------------------------------------------------------------------
(* Specification of autoSnap calls: on n (no drag identifier) and on a,       *)
(* before and after a spec of AutoSpecs is stored for it, during and between *)
(* drags, at positions inside and outside the spec's bounds.                 *)

\* Consistent bounds without axis or within: the resolved position of (l, t)
\* equals (l, t) exactly when (l, t) satisfies the bounds.
AutoSpecs == {[minX |-> 2], [minX |-> 1, maxX |-> 2, minY |-> 1, maxY |-> 2]}

NextAuto ==
    \/ DocumentLoad("d1")
    \/ \E c \in AutoSpecs :
          /\ Loaded("d1")
          /\ ~Has(documents["d1"].constraints, "A")
          /\ SetConstraints("d1", <<[kind |-> "element", v |-> "a"]>>, c)
    \/ Start("d1", "a", 0, 0)
    \/ Move("d1", "a", 1, 0)
    \/ End("d1", "a", "end")
    \/ CleanupFire
    \/ \E el \in {"a", "n"} : AutoSnap("d1", el)
    \/ SetInteractionMap("d1", [A |-> Noop])
    \/ ExternalWrite("d1", "a", 0, 0)

SpecAuto == Init /\ [][NextAuto]_vars

\* autoSnap(el) has nothing to do: el has no drag identifier, or no spec is
\* stored for its identifier, or its position satisfies the stored spec.
NothingToSnap(el) ==
    \/ ElemInfo(el).name = ""
    \/ ~Has(documents["d1"].constraints, ElemInfo(el).name)
    \/ WithinSetBounds(documents["d1"].constraints[ElemInfo(el).name],
                       prop[el].left, prop[el].top)

\* C22: autoSnap never modifies sessions, constraints, handlers or the stacking
\* counter (nor the pending tasks), and when the element has no drag
\* identifier, no spec is stored for it, or its position already equals the
\* resolved one, it writes no geometry and leaves data-initial-left/top alone.
C22_AutoSnapFrame ==
    [][\A el \in {"a", "n"} :
          AutoSnap("d1", el) =>
              /\ documents' = documents
              /\ zLog' = zLog /\ cleanups' = cleanups /\ snaps' = snaps
              /\ locked' = locked /\ gameState' = gameState
              /\ NothingToSnap(el) =>
                    (prop' = prop /\ initAttr' = initAttr /\ ~last'.wrote)]_vars

\* An autoSnap of a has run during an active session with handlers installed,
\* with a moved away from where the session started but inside the stored
\* bounds, and has written nothing.
C22_Witness ==
    /\ last.op = "autoSnap" /\ last.el = "a" /\ ~last.wrote
    /\ Has(documents["d1"].constraints, "A")
    /\ Has(documents["d1"].dragData, "A") /\ documents["d1"].dragData["A"].isActive
    /\ Has(documents["d1"].interactionMap, "A")
    /\ Has(initAttr, "a") /\ initAttr["a"] # <<prop["a"].left, prop["a"].top>>
    /\ WithinSetBounds(documents["d1"].constraints["A"], prop["a"].left, prop["a"].top)

------------------------------------------------------------------------------
(* Specification of two documents: d1 with the draggable a and d2 with the    *)
(* draggable z, both bearing the drag identifier A, each driven through its   *)
(* own API: repeated drags, specs, handlers and resets in d1, one drag and a  *)
(* spec in d2.                                                               *)

\* The draggable of each document.
DragOf(doc) == IF doc = "d1" THEN "a" ELSE "z"

NextIso ==
    \/ \E doc \in Docs : DocumentLoad(doc)
    \/ \E doc \in Docs : (doc = "d2" => zLog[doc] = <<>>) /\ Start(doc, DragOf(doc), 0, 0)
    \/ Move("d1", "a", 1, 0)
    \/ \E doc \in Docs : End(doc, DragOf(doc), "end")
    \/ CleanupFire
    \/ \E doc \in Docs :
          /\ Loaded(doc)
          /\ ~Has(documents[doc].constraints, "A")
          /\ SetConstraints(doc, <<[kind |-> "name", v |-> "A"]>>, [minX |-> 1])
    \/ /\ Loaded("d1")
       /\ documents["d1"].interactionMap = <<>>
       /\ SetInteractionMap("d1", [A |-> Noop])
    \/ ResetState("d1", "")

SpecIso == Init /\ [][NextIso]_vars

\* C23: every operation performed through one document's API (load, handler
\* phases, setConstraints, setInteractionMap, resetState, and the cleanup
\* tasks it scheduled) leaves the registry of every other document (sessions,
\* constraints, handler map, stacking counter) as it was, also when both use
\* the same drag identifier.
C23_DocumentIsolation ==
    [][\A other \in Docs \ {last'.doc} :
          /\ Has(documents', other) <=> Has(documents, other)
          /\ Has(documents, other) => documents'[other] = documents[other]]_vars

\* A cleanup task of d1 has deleted the session of identifier A there, while
\* d2 holds an active session and a spec under the same identifier, no
\* handlers, and its own counter value.
C23_Witness ==
    /\ last.op = "cleanup" /\ last.doc = "d1" /\ last.name = "A"
    /\ Has(documents, "d2")
    /\ ~Has(documents["d1"].dragData, "A")
    /\ Has(documents["d2"].dragData, "A") /\ documents["d2"].dragData["A"].isActive
    /\ Has(documents["d2"].constraints, "A") /\ ~Has(documents["d1"].constraints, "A")
    /\ Has(documents["d1"].interactionMap, "A") /\ ~Has(documents["d2"].interactionMap, "A")
    /\ documents["d2"].zCounter # documents["d1"].zCounter

------------------------------------------------------------------------------
(* Specification of constraint assignment: setConstraints on a with a spec    *)
(* that has no autoSnap field, autoSnap: true or autoSnap: false, under       *)
(* either value of the global autoSnap default, with a inside or outside the *)
(* spec's bounds; the deferred snaps run later.                              *)

DeferSpecs == {[minX |-> 2], [minX |-> 2, autoSnap |-> TRUE], [minX |-> 2, autoSnap |-> FALSE]}
OnlyA == <<[kind |-> "element", v |-> "a"]>>

NextDefer ==
    \/ DocumentLoad("d1")
    \/ \E c \in DeferSpecs : SetConstraints("d1", OnlyA, c)
    \/ \E value \in BOOLEAN : SetDefault("autoSnap", value)
    \/ SnapFire
    \/ \E l \in {0, 3} : ExternalWrite("d1", "a", l, 1)

SpecDefer == Init /\ [][NextDefer]_vars

\* C24: setConstraints stores the spec before it returns and leaves the
\* element's position (and its cached baseline attributes) unchanged; it
\* schedules one auto-snap task for the element exactly when the spec's own
\* autoSnap field is true or, the spec having no autoSnap field, the global
\* autoSnap default is true.
C24_SetConstraintsDefersSnap ==
    [][\A c \in DeferSpecs :
          SetConstraints("d1", OnlyA, c) =>
              /\ Has(documents'["d1"].constraints, "A")
              /\ documents'["d1"].constraints["A"] = c
              /\ prop' = prop /\ initAttr' = initAttr /\ ~last'.wrote
              /\ LET shouldSnap == IF Has(c, "autoSnap") THEN c.autoSnap ELSE defaults.autoSnap
                 IN snaps' = IF shouldSnap
                             THEN Append(snaps, [doc |-> "d1", el |-> "a"])
                             ELSE snaps]_vars

\* setConstraints has returned with a spec carrying autoSnap: true while the
\* global default is off: the spec is stored, the snap is pending and a still
\* lies left of the spec's minX.
C24_Witness ==
    /\ last.op = "setConstraints"
    /\ ~defaults.autoSnap
    /\ documents["d1"].constraints["A"] = [minX |-> 2, autoSnap |-> TRUE]
    /\ snaps = <<[doc |-> "d1", el |-> "a"]>>
    /\ prop["a"].left < 2

------------------------------------------------------------------------------
(* Specification of scene changes: d1 goes back and forth between s1 (a, b)   *)
(* and s2 (c, which carries declarative bounds), under every setting of the  *)
(* resetOnSceneUnload and autoSnap defaults, while user code fills gameState *)
(* and sets a spec for a through setConstraints.                             *)

NextScene ==
    \/ DocumentLoad("d1")
    \/ WriteGameState("d1")
    \/ \E to \in DocScenes("d1") : ChangeScene("d1", to)
    \/ \E key \in {"resetOnSceneUnload", "autoSnap"}, value \in BOOLEAN : SetDefault(key, value)
    \/ /\ Loaded("d1")
       /\ ~Has(documents["d1"].constraints, "A")
       /\ "a" \in OnDisplay("d1")
       /\ SetConstraints("d1", OnlyA, [minX |-> 2])
    \/ SnapFire

SpecScene == Init /\ [][NextScene]_vars

\* C25: after every scene-unload event (here: the unload that opens a scene
\* change), under every configuration, gameState is empty.
C25_GameStateClearedOnUnload ==
    last.op = "changeScene" => gameState[last.doc] = "empty"

\* C26: with the global autoSnap default enabled, right after a scene
\* activation every element of the scene on display that has a stored spec,
\* set through setConstraints or derived from attributes, has an auto-snap
\* task pending.
C26_ActivationSnapsEveryConstrained ==
    (last.op = "changeScene" /\ defaults.autoSnap) =>
        \A e \in OnDisplay(last.doc) :
            (ElemInfo(e).name # "" /\ Has(documents[last.doc].constraints, ElemInfo(e).name))
                => \E i \in DOMAIN snaps : snaps[i].doc = last.doc /\ snaps[i].el = e

------------------------------------------------------------------------------
(* Specification of re-entrant callbacks: drags of a whose onDrop handler     *)
(* does nothing, starts a new drag of a, or calls setConstraints for a; the  *)
(* host can put a at (3, 3), clear of every drop target.                     *)

Restart == [onStart |-> "none", onProgress |-> "none", onDrop |-> "start"]
Constrain == [onStart |-> "none", onProgress |-> "none", onDrop |-> "setConstraints"]

NextReenter ==
    \/ DocumentLoad("d1")
    \/ \E record \in {Noop, Restart, Constrain} :
          /\ Loaded("d1")
          /\ documents["d1"].interactionMap # [A |-> record]
          /\ SetInteractionMap("d1", [A |-> record])
    \/ \E x \in Pointer : Start("d1", "a", x, 0)
    \/ \E x \in Pointer : Move("d1", "a", x, 0)
    \/ \E phase \in {"end", "cancel"} : End("d1", "a", phase)
    \/ CleanupFire
    \/ ExternalWrite("d1", "a", 3, 3)

SpecReenter == Init /\ [][NextReenter]_vars

\* The last operation was an end/cancel that invoked onDrop.
DropInvoked == last.op \in {"end", "cancel"} /\ last.cb = "onDrop"

\* The handler record installed for a.
RecordOfA == documents["d1"].interactionMap["A"]

\* The session of a is in the registry and active.
ActiveA(docs) ==
    /\ Has(docs, "d1") /\ Has(docs["d1"].dragData, "A")
    /\ docs["d1"].dragData["A"].isActive

\* C27: what an onDrop callback produces synchronously is kept: after an end
\* whose onDrop started a new drag of the identifier the new session is present
\* and active, after one whose onDrop called setConstraints the spec is
\* stored; and the cleanup task scheduled by the end that invoked the callback
\* (a task that fires on an active session although no start was handled after
\* it was scheduled) does not remove the new session.
C27_ReentrantStateKept ==
    /\ []((DropInvoked /\ RecordOfA = Restart) => ActiveA(documents))
    /\ []((DropInvoked /\ RecordOfA = Constrain) =>
              (Has(documents["d1"].constraints, "A")
                 /\ documents["d1"].constraints["A"] = CallbackSpec))
    /\ [][(last'.op = "cleanup" /\ ~last'.stale /\ last'.name = "A" /\ ActiveA(documents))
             => ActiveA(documents')]_vars

------------------------------------------------------------------------------
(* The active flag of a session, under SpecReenter.                          *)

\* The session of a is in the registry and inactive.
EndedA(docs) ==
    /\ Has(docs, "d1") /\ Has(docs["d1"].dragData, "A")
    /\ ~docs["d1"].dragData["A"].isActive

\* A session becomes active only when a start is handled.
ActiveOnlyByStart ==
    (ActiveA(documents') /\ ~ActiveA(documents)) => last'.op = "start"

\* An ended session stays in the registry, inactive, until a cleanup task of
\* its identifier fires or a start replaces it.
EndedUntilCleanup ==
    (EndedA(documents) /\ last'.op \notin {"cleanup", "start"}) => EndedA(documents')

\* C28 as stated: a session is active only if a start for its identifier has
\* been handled and no end/cancel has been processed since: it becomes active
\* only through a start, and every end/cancel processed on an active session
\* leaves it in the registry with active = false, where it stays until cleanup.
C28_ActiveOnlyBetweenStartAndEnd ==
    [][/\ ActiveOnlyByStart
       /\ (last'.op \in {"end", "cancel"} /\ ActiveA(documents)) => EndedA(documents')
       /\ EndedUntilCleanup]_vars

\* C28 amended: a session becomes active only through a start, handled for a
\* gesture or issued by an onDrop callback; every end/cancel processed on an
\* active session leaves it in the registry with active = false, unless its
\* onDrop callback started a new drag of the identifier, whose session is then
\* in the registry with active = true; an ended session stays in the
\* registry, inactive, until cleanup.
C28_ActiveOnlyBetweenStartAndEndOrRestarted ==
    [][/\ ActiveOnlyByStart
       /\ (last'.op \in {"end", "cancel"} /\ ActiveA(documents)) =>
             IF last'.cb = "onDrop" /\ RecordOfA = Restart
             THEN ActiveA(documents')
             ELSE EndedA(documents')
       /\ EndedUntilCleanup]_vars

\* The end of a second drag of a has been processed and has invoked an onDrop
\* that starts nothing: the session is in the registry, inactive, its cleanup
\* pending.
C28_Witness ==
    /\ DropInvoked /\ RecordOfA # Restart
    /\ Len(zLog["d1"]) >= 2
    /\ EndedA(documents)
    /\ FreshCleanupPending("d1", "A")

------------------------------------------------------------------------------
(* The order of the steps of end/cancel, under SpecReenter.                  *)

\* C29: when an end/cancel invokes onDrop, the callback finds the session in
\* the registry, marked inactive, with the baseline of the session that is
\* ending, and the event carrying the dropTarget that was resolved (an element
\* or null); no cleanup task has been scheduled yet at that moment, and one
\* task, scheduled after every start the callback made, is added before the
\* end/cancel returns.
C29_DropOrdering ==
    [][(last'.op \in {"end", "cancel"} /\ last'.cb = "onDrop") =>
          /\ last'.seen.present /\ ~last'.seen.active
          /\ last'.seen.initialLeft = documents["d1"].dragData["A"].initialLeft
          /\ last'.seen.initialTop = documents["d1"].dragData["A"].initialTop
          /\ last'.seen.target = last'.target /\ last'.target # "unset"
          /\ last'.seen.tasks = Len(cleanups)
          /\ Len(cleanups') = Len(cleanups) + 1
          /\ cleanups'[Len(cleanups')] = [doc |-> "d1", name |-> "A", stale |-> FALSE]]_vars

\* An end has invoked an onDrop that started a new drag while the cleanup of
\* an earlier session was pending: the callback saw the ended session with
\* the baseline the drag had started from, a resolved target and that one
\* task; two tasks are pending now.
C29_Witness ==
    /\ DropInvoked /\ RecordOfA = Restart
    /\ last.seen.present /\ ~last.seen.active
    /\ last.seen.initialLeft # prop["a"].left
    /\ last.seen.target \notin {"unset", ""}
    /\ last.seen.tasks = 1 /\ Len(cleanups) = 2

------------------------------------------------------------------------------
(* Specification of the session lifecycle with its timers running: drags of  *)
(* a, with or without an onDrop that starts a new drag, and the deferred     *)
(* deletes, every one of which fires some time after it was scheduled.       *)

NextLive ==
    \/ DocumentLoad("d1")
    \/ \E x \in Pointer : Start("d1", "a", x, 0)
    \/ \E x \in Pointer : Move("d1", "a", x, 0)
    \/ \E phase \in {"end", "cancel"} : End("d1", "a", phase)
    \/ CleanupFire
    \/ /\ Loaded("d1")
       /\ documents["d1"].interactionMap = <<>>
       /\ SetInteractionMap("d1", [A |-> Restart])

\* setTimeout callbacks are run by the event loop once their delay has passed.
SpecLive == Init /\ [][NextLive]_vars /\ WF_vars(CleanupFire)

\* An end/cancel of a has just been processed.
EndProcessed == last.op \in {"end", "cancel"} /\ last.name = "A" /\ last.target # "unset"

\* C30: after every processed end/cancel for an identifier, unless a further
\* start for it is handled, a state is reached in which the registry holds no
\* session for the identifier.
C30_CleanupEventually ==
    EndProcessed ~> (~(ActiveA(documents) \/ EndedA(documents)) \/ last.op = "start")

\* The cleanup task of the latest end has fired and the registry holds no
\* session of a, after two drags.
C30_Witness ==
    /\ last.op = "cleanup" /\ last.name = "A" /\ ~last.stale
    /\ cleanups = <<>>
    /\ Len(zLog["d1"]) >= 2
    /\ ~Has(documents["d1"].dragData, "A")

------------------------------------------------------------------------------
(* Specification of unconstrained drags: a, with no stored spec or with the   *)
(* empty spec, dragged from any pointer-down position to any pointer         *)
(* position, with or without an onProgress handler.                          *)

EmptySpec == <<>>

\* Pointer-down positions, on the anti-diagonal of the pointer range.
FreeDown == {<<q, MaxPtr - q>> : q \in Pointer}

NextFree ==
    \/ DocumentLoad("d1")
    \/ /\ Loaded("d1")
       /\ ~Has(documents["d1"].constraints, "A")
       /\ SetConstraints("d1", OnlyA, EmptySpec)
    \/ /\ Loaded("d1")
       /\ documents["d1"].interactionMap = <<>>
       /\ SetInteractionMap("d1", [A |-> Noop])
    \/ /\ cleanups = <<>>
       /\ \E q \in FreeDown : Start("d1", "a", q[1], q[2])
    \/ \E x, y \in Pointer : Move("d1", "a", x, y)
    \/ End("d1", "a", "end")
    \/ CleanupFire

SpecFree == Init /\ [][NextFree]_vars

\* C31: for an identifier with no stored spec, or an empty one, a move writes
\* exactly baseline left + (pointer x - pointer-down x) and baseline top +
\* (pointer y - pointer-down y), and an onProgress it invokes finds the
\* element at the written position.
C31_UnconstrainedMoveIsBaselinePlusDelta ==
    [][\A x, y \in Pointer :
          (/\ Loaded("d1")
           /\ Has(documents["d1"].dragData, "A")
           /\ Has(documents["d1"].constraints, "A") => documents["d1"].constraints["A"] = EmptySpec
           /\ last'.op = "move"
           /\ Move("d1", "a", x, y))
            => LET data == documents["d1"].dragData["A"]
                   newLeft == data.initialLeft + (x - data.startX)
                   newTop == data.initialTop + (y - data.startY)
               IN  /\ last'.wrote /\ last'.wl = newLeft /\ last'.wt = newTop
                   /\ prop'["a"].left = newLeft /\ prop'["a"].top = newTop
                   /\ last'.cb = "onProgress" =>
                         (last'.seen.left = newLeft /\ last'.seen.top = newTop)]_vars

\* A move of a session under the empty spec, with an onProgress handler
\* installed, has written the baseline plus the pointer's offset, one step
\* right and one step up, and the handler saw the element there.
C31_Witness ==
    /\ last.op = "move" /\ last.wrote /\ last.cb = "onProgress"
    /\ Has(documents["d1"].constraints, "A") /\ documents["d1"].constraints["A"] = EmptySpec
    /\ Has(documents["d1"].dragData, "A")
    /\ last.wl = documents["d1"].dragData["A"].initialLeft + 1
    /\ last.wt = documents["d1"].dragData["A"].initialTop - 1
    /\ last.seen.left = last.wl /\ last.seen.top = last.wt

------------------------------------------------------------------------------
(* Specification of unresolved containment: a dragged under every spec whose  *)
(* within selector matches nothing in the scene, with every bounds and axis  *)
(* part of the resolver's specification.                                     *)

MissingSpecs == {c \in GeomSpecs : Has(c, "within") /\ c.within = ".missing"}

NextMissing ==
    \/ DocumentLoad("d1")
    \/ \E c \in MissingSpecs :
          /\ Loaded("d1")
          /\ ~Has(documents["d1"].constraints, "A")
          /\ SetConstraints("d1", OnlyA, c)
    \/ /\ Loaded("d1")
       /\ ~Has(documents["d1"].dragData, "A")
       /\ Start("d1", "a", 1, 1)
    \/ \E x, y \in GeomPointer : Move("d1", "a", x, y)

SpecMissing == Init /\ [][NextMissing]_vars

\* C32: when the stored spec's within selector matches no region of the
\* active scene, a move writes the position that the boundary clamp followed
\* by the axis lock give for the proposed position: the containment stage
\* changes nothing and the write still happens.
C32_UnresolvedWithinSkipsStage ==
    [][\A x, y \in GeomPointer :
          (/\ Loaded("d1")
           /\ Has(documents["d1"].dragData, "A")
           /\ Has(documents["d1"].constraints, "A")
           /\ Has(documents["d1"].constraints["A"], "within")
           /\ documents["d1"].constraints["A"].within = ".missing"
           /\ QuerySelector(currentScene["d1"], ".missing") = ""
           /\ last'.op = "move"
           /\ Move("d1", "a", x, y))
            => LET data == documents["d1"].dragData["A"]
                   c == documents["d1"].constraints["A"]
                   newLeft == data.initialLeft + (x - data.startX)
                   newTop == data.initialTop + (y - data.startY)
                   staged == axisLock(c, boundaryClamp(c, newLeft, newTop),
                                      data.initialLeft, data.initialTop)
               IN  /\ last'.wrote /\ last'.wl = staged.left /\ last'.wt = staged.top
                   /\ prop'["a"].left = staged.left /\ prop'["a"].top = staged.top]_vars

\* A move under a box of bounds, an axis lock and an unresolved within wrote
\* a position that the box clamped on the free coordinate, away from the
\* origin, and that the lock held at the baseline on the other.
C32_Witness ==
    /\ MoveWrote /\ last.clamped
    /\ GeomSpec \in MissingSpecs /\ AxisIs(GeomSpec, "x")
    /\ Has(GeomSpec, "maxX") /\ Has(GeomSpec, "minX") /\ GeomSpec.minX <= GeomSpec.maxX
    /\ Has(documents["d1"].dragData, "A")
    /\ last.wl = GeomSpec.maxX /\ last.wl # GeomSession.initialLeft
    /\ last.wt = GeomSession.initialTop /\ last.wt > 0

------------------------------------------------------------------------------
(* Specification of constraint targets given by drag name: A lives in scene   *)
(* s1 and C in scene s2 of d1, so whichever scene is on display one of the   *)
(* two names matches no element; setConstraints is called with one name and  *)
(* with arrays of both, in either order.                                     *)

ByName(name) == [kind |-> "name", v |-> name]
TargetLists == {<<ByName("A")>>, <<ByName("C")>>,
                <<ByName("A"), ByName("C")>>, <<ByName("C"), ByName("A")>>}
TargetSpecs == {[maxY |-> 1], [minX |-> 2, autoSnap |-> TRUE]}

NextTarget ==
    \/ DocumentLoad("d1")
    \/ \E elements \in TargetLists, c \in TargetSpecs : SetConstraints("d1", elements, c)
    \/ \E to \in {"s1", "s2"} : ChangeScene("d1", to)
    \/ SnapFire

SpecTarget == Init /\ [][NextTarget]_vars

\* The drag names of a list, and those among them with an element in the
\* scene on display.
NamesOf(elements) == {elements[i].v : i \in DOMAIN elements}
Resolved(elements) == SelectSeq(elements, LAMBDA item : QueryDragName(currentScene["d1"], item.v) # "")

\* What the call leaves for name: the stored spec, or none.
StoredFor(docs, name) ==
    IF Has(docs["d1"].constraints, name) THEN <<docs["d1"].constraints[name]>> ELSE <<>>

\* C33: setConstraints given a drag name that matches no element of the
\* active scene neither stores nor replaces a spec for that name and
\* schedules no auto-snap for it; the other members of an array are
\* processed: their spec is stored and their auto-snap scheduled.
C33_UnresolvedNameIsSkipped ==
    [][\A elements \in TargetLists, c \in TargetSpecs :
          (/\ Loaded("d1")
           /\ last'.op = "setConstraints"
           /\ SetConstraints("d1", elements, c))
            => LET found == Resolved(elements)
                   shouldSnap == IF Has(c, "autoSnap") THEN c.autoSnap ELSE defaults.autoSnap
               IN  /\ \A name \in Names :
                         StoredFor(documents', name) =
                             IF name \in NamesOf(found) THEN <<c>> ELSE StoredFor(documents, name)
                   /\ snaps' = snaps \o
                         (IF shouldSnap
                          THEN [i \in DOMAIN found |->
                                   [doc |-> "d1", el |-> QueryDragName(currentScene["d1"], found[i].v)]]
                          ELSE <<>>)]_vars

\* Scene s2 is on display, A has kept the spec it was given in scene s1, and
\* a call for the array (A, C) with another, auto-snapping spec has stored
\* that spec for C alone and scheduled one snap, for C's element.
C33_Witness ==
    /\ last.op = "setConstraints" /\ Loaded("d1") /\ currentScene["d1"] = "s2"
    /\ StoredFor(documents, "A") = <<[maxY |-> 1]>>
    /\ StoredFor(documents, "C") = <<[minX |-> 2, autoSnap |-> TRUE]>>
    /\ snaps = <<[doc |-> "d1", el |-> "c"]>>

------------------------------------------------------------------------------
(* The controller of src/unnamed/part_000 (version 1.4.0): its gesture       *)
(* handler and setConstraints. Its registry has no z counter (the field of   *)
(* NewRegistry is left untouched), its drop-target scan and its end branch   *)
(* are those of the current version.                                         *)

\* hypeDocument.setElementProperty(element, 'z-index', 9999)
FrontZV140 == 9999

\* The start branch: the baseline is the cached data-initial-left/top when
\* the element carries the attribute, the live position otherwise.
handlerStartV140(st, doc, element, x, y) ==
    LET s0 == withRegistry(st, doc)
        dragName == ElemInfo(element).name
    IN  IF dragName = "" THEN s0
        ELSE
          LET cached == Has(s0.initAttr, element)
              initialLeft == IF cached THEN s0.initAttr[element][1] ELSE s0.prop[element].left
              initialTop == IF cached THEN s0.initAttr[element][2] ELSE s0.prop[element].top
              data == [initialLeft |-> initialLeft, initialTop |-> initialTop,
                       initialZ |-> s0.prop[element].z,
                       startX |-> x, startY |-> y, isActive |-> TRUE]
              s1 == [s0 EXCEPT !.initAttr = IF cached THEN @ ELSE Put(@, element, <<initialLeft, initialTop>>),
                               !.documents[doc].dragData = Put(@, dragName, data),
                               !.cleanups = markStale(@, doc, dragName)]
              s2 == IF s1.defaults.bringToFront
                    THEN [s1 EXCEPT !.prop[element].z = FrontZV140]
                    ELSE s1
          IN invoke(s2, doc, element, "onStart")

\* The constraint stages written out in the move branch: bounds, axis, then
\* containment (_getContainmentBounds computes what _getWithinBounds does).
constrainV140(element, c, data, newLeft, newTop, scene, p) ==
    LET clamped == boundaryClamp(c, newLeft, newTop)
        t == IF Has(c, "axis") /\ c.axis = "x" THEN data.initialTop ELSE clamped.top
        l == IF Has(c, "axis") /\ c.axis = "y" THEN data.initialLeft ELSE clamped.left
    IN  IF Has(c, "containment")
        THEN LET bounds == getWithinBounds(element, c.containment, scene, p)
             IN IF bounds.found
                THEN [left |-> Max(bounds.minX, Min(l, bounds.maxX)),
                      top |-> Max(bounds.minY, Min(t, bounds.maxY))]
                ELSE [left |-> l, top |-> t]
        ELSE [left |-> l, top |-> t]

handlerMoveV140(st, doc, element, x, y) ==
    LET s0 == withRegistry(st, doc)
        dragName == ElemInfo(element).name
        reg == s0.documents[doc]
    IN  IF dragName = "" THEN s0
        ELSE IF ~Has(reg.dragData, dragName) THEN s0
        ELSE
          LET data == reg.dragData[dragName]
              newLeft == data.initialLeft + (x - data.startX)
              newTop == data.initialTop + (y - data.startY)
              result ==
                  IF Has(reg.constraints, dragName)
                  THEN constrainV140(element, reg.constraints[dragName], data, newLeft, newTop,
                                     s0.currentScene[doc], s0.prop)
                  ELSE [left |-> newLeft, top |-> newTop]
              s1 == [writePosition(s0, element, result.left, result.top)
                       EXCEPT !.last.clamped = (result.left # newLeft \/ result.top # newTop)]
          IN invoke(s1, doc, element, "onProgress")

\* The end branch reads as the one of the current version.
handlerEndV140(st, doc, element) == handlerEnd(st, doc, element)

\* setConstraints for one element: the spec is stored, nothing else happens.
setConstraintsV140(st, doc, element, c) ==
    LET s0 == withRegistry(st, doc)
        dragName == ElemInfo(element).name
    IN  IF dragName = "" THEN s0
        ELSE [s0 EXCEPT !.documents[doc].constraints = Put(@, dragName, c)]

StartV140(doc, el, x, y) ==
    /\ el \in DocElems(doc)
    /\ Commit(handlerStartV140(Begin(Cur, "start", doc, el), doc, el, x, y))

MoveV140(doc, el, x, y) ==
    /\ Loaded(doc)
    /\ LET dragName == ElemInfo(el).name
           dd == documents[doc].dragData
       IN Has(dd, dragName) =>
            /\ dd[dragName].initialLeft + (x - dd[dragName].startX) \in Coords
            /\ dd[dragName].initialTop + (y - dd[dragName].startY) \in Coords
    /\ Commit(handlerMoveV140(Begin(Cur, "move", doc, el), doc, el, x, y))

EndV140(doc, el) ==
    /\ Loaded(doc)
    /\ Len(cleanups) < MaxTimers
    /\ Commit(handlerEndV140(Begin(Cur, "end", doc, el), doc, el))

SetConstraintsV140(doc, el, c) ==
    /\ ~(Loaded(doc) /\ Has(documents[doc].constraints, ElemInfo(el).name))
    /\ Commit(setConstraintsV140(Begin(Cur, "setConstraints", doc, ""), doc, el, c))

NextV140 ==
    \/ \E q \in FreeDown : StartV140("d1", "a", q[1], q[2])
    \/ \E x, y \in Pointer : MoveV140("d1", "a", x, y)
    \/ EndV140("d1", "a")
    \/ CleanupFire
    \/ SetConstraintsV140("d1", "a", [maxX |-> 2, axis |-> "x", containment |-> "parent"])

SpecV140 == Init /\ [][NextV140]_vars

\* C34 as stated: in version 1.4.0, right after every start the session
\* baseline left/top equals the element's live left/top (so a move back to
\* the pointer-down position leaves a dropped element where it is).
C34_StartReadsLivePositionV140 ==
    (/\ last.op = "start" /\ last.el = "a"
     /\ Loaded("d1") /\ Has(documents["d1"].dragData, "A"))
        => /\ documents["d1"].dragData["A"].initialLeft = prop["a"].left
           /\ documents["d1"].dragData["A"].initialTop = prop["a"].top

------------------------------------------------------------------------------
(* Specification of successive moves: one session of a, with no spec or one  *)
(* of PathSpecs, whose pointer visits every position in any order.           *)

PathSpecs ==
    {[minX |-> 1, maxX |-> 2, minY |-> 1, maxY |-> 2],
     [axis |-> "x", within |-> "parent"],
     [minX |-> 2, within |-> ".missing"],
     [maxY |-> 1, axis |-> "y", within |-> ".region"]}

NextPath ==
    \/ DocumentLoad("d1")
    \/ \E c \in PathSpecs :
          /\ Loaded("d1")
          /\ ~Has(documents["d1"].constraints, "A")
          /\ SetConstraints("d1", OnlyA, c)
    \/ \E q \in FreeDown :
          /\ Loaded("d1")
          /\ ~Has(documents["d1"].dragData, "A")
          /\ Start("d1", "a", q[1], q[2])
    \/ \E x, y \in GeomPointer : Move("d1", "a", x, y)

SpecPath == Init /\ [][NextPath]_vars

\* The position the resolver gives for the pointer (x, y) from the session
\* record, the stored spec and the sizes and container positions alone: the
\* element's own live left/top are blanked before the resolver is applied.
PathResult(x, y) ==
    LET data == documents["d1"].dragData["A"]
        newLeft == data.initialLeft + (x - data.startX)
        newTop == data.initialTop + (y - data.startY)
        blank == [prop EXCEPT !["a"].left = 0, !["a"].top = 0]
    IN  IF Has(documents["d1"].constraints, "A")
        THEN computeConstrainedPosition("a", documents["d1"].constraints["A"], newLeft, newTop,
                                        data.initialLeft, data.initialTop,
                                        currentScene["d1"], blank)
        ELSE [left |-> newLeft, top |-> newTop]

\* C35: a move leaves the session record as it was, and the position it
\* writes is a function of the session baseline, the pointer-down position,
\* the pointer position, the stored spec and the geometry of container and
\* element: where earlier moves of the session put the element has no effect.
C35_MovesArePathIndependent ==
    [][\A x, y \in GeomPointer :
          (/\ Loaded("d1")
           /\ Has(documents["d1"].dragData, "A")
           /\ last'.op = "move"
           /\ Move("d1", "a", x, y))
            => /\ documents'["d1"].dragData = documents["d1"].dragData
               /\ last'.wrote
               /\ last'.wl = PathResult(x, y).left /\ last'.wt = PathResult(x, y).top
               /\ prop'["a"].left = last'.wl /\ prop'["a"].top = last'.wt]_vars

\* A move of a session under the box of bounds wrote the position one step
\* right of and one step below the baseline, inside the box, and the session
\* still holds the baseline the start stored.
C35_Witness ==
    /\ last.op = "move" /\ last.wrote /\ ~last.clamped
    /\ Loaded("d1") /\ Has(documents["d1"].dragData, "A")
    /\ Has(documents["d1"].constraints, "A") /\ Has(documents["d1"].constraints["A"], "minX")
    /\ last.wl = documents["d1"].dragData["A"].initialLeft + 1
    /\ last.wt = documents["d1"].dragData["A"].initialTop + 1

------------------------------------------------------------------------------
(* Specification of late auto-snaps: the spec of a is replaced while snap    *)
(* tasks of earlier setConstraints calls are still pending.                  *)

LateSpecs == {[minX |-> 2, autoSnap |-> TRUE], [minX |-> 3, autoSnap |-> FALSE], [maxY |-> 0]}

NextLate ==
    \/ DocumentLoad("d1")
    \/ \E c \in LateSpecs : SetConstraints("d1", OnlyA, c)
    \/ SnapFire
    \/ \E l \in {0, 3} : ExternalWrite("d1", "a", l, 1)

SpecLate == Init /\ [][NextLate]_vars

\* C36: a deferred auto-snap task resolves the element's position against
\* the spec stored for its identifier when the task fires, whichever spec
\* scheduled it and whatever autoSnap flag the stored spec carries.
C36_SnapTaskUsesStoredSpec ==
    [][(/\ SnapFire
        /\ Head(snaps) = [doc |-> "d1", el |-> "a"]
        /\ Has(documents["d1"].constraints, "A"))
         => LET c == documents["d1"].constraints["A"]
                result == computeConstrainedPosition("a", c, prop["a"].left, prop["a"].top,
                                                     prop["a"].left, prop["a"].top,
                                                     currentScene["d1"], prop)
            IN  /\ prop'["a"].left = result.left /\ prop'["a"].top = result.top
                /\ Has(c, "minX") => prop'["a"].left >= c.minX
                /\ Has(c, "maxY") => prop'["a"].top <= c.maxY]_vars

\* The task scheduled with one spec fired after the spec had been replaced by
\* one with autoSnap false and a higher minX, and moved the element onto the
\* replacing spec's minX, beyond the bound of the scheduling spec.
C36_Witness ==
    /\ last.op = "snapTask" /\ last.el = "a" /\ last.wrote
    /\ Loaded("d1") /\ Has(documents["d1"].constraints, "A")
    /\ documents["d1"].constraints["A"] = [minX |-> 3, autoSnap |-> FALSE]
    /\ prop["a"].left = 3 /\ last.wl = 3

------------------------------------------------------------------------------
\* C37: snapBack restores the stacking value according to the bringToFront
\* setting in force when it is called: enabled, the element gets the
\* session's baseline stacking value; disabled, it keeps the value it has,
\* raised or not, whatever the setting was at the start.
C37_SnapBackReadsSettingAtCall ==
    [][(/\ Loaded("d1")
        /\ Has(documents["d1"].dragData, "A")
        /\ SnapBack("d1", "a"))
         => prop'["a"].z = IF defaults.bringToFront
                           THEN documents["d1"].dragData["A"].initialZ
                           ELSE prop["a"].z]_vars

\* A snapBack run with bringToFront disabled on a session whose start had
\* raised the element: the position is back on the baseline and the element
\* still has the raised stacking value, the last one handed out.
C37_Witness ==
    /\ last.op = "snapBack" /\ last.el = "a" /\ last.wrote
    /\ ~defaults.bringToFront
    /\ Has(LastData, "A") /\ zLog["d1"] # <<>>
    /\ prop["a"].z = zLog["d1"][Len(zLog["d1"])]
    /\ prop["a"].z > LastData["A"].initialZ

------------------------------------------------------------------------------
(* Specification of declarative loading: d1 goes back and forth between s1   *)
(* (a, and b with a lone auto-snap attribute: no constraint attribute) and s2 *)
(* (c, declaring bounds) with resetOnSceneUnload off, so that a scene change  *)
(* is the activation alone, while specs are stored through setConstraints, a *)
(* handler map is installed and a is dragged.                                *)

DeclSpecs == {[maxY |-> 1], [minX |-> 2, autoSnap |-> TRUE]}

NextDecl ==
    \/ DocumentLoad("d1")
    \/ \E to \in {"s1", "s2"} : ChangeScene("d1", to)
    \/ \E name \in {"A", "B", "C"}, c \in DeclSpecs : SetConstraints("d1", <<ByName(name)>>, c)
    \/ /\ Loaded("d1")
       /\ documents["d1"].interactionMap = <<>>
       /\ SetInteractionMap("d1", [A |-> Noop])
    \/ /\ Loaded("d1")
       /\ ~Has(documents["d1"].dragData, "A")
       /\ Start("d1", "a", 0, 0)
    \/ SnapFire

SpecDecl == Init /\ [][NextDecl]_vars

\* The constraint attributes the draggable called name declares in scene,
\* as a sequence of at most one spec: none when the scene has no such
\* element or the element declares no constraint attribute.
DeclaredIn(scene, name) ==
    LET e == QueryDragName(scene, name)
    IN IF e # "" /\ DOMAIN DataAttrs(e) # {} THEN <<DataAttrs(e)>> ELSE <<>>

\* C38: the activation of a scene replaces the stored spec of an identifier
\* exactly when its element in that scene declares at least one constraint
\* attribute, by the declared spec; every other stored spec is left as it
\* was, and sessions, the handler map and the stacking counter are untouched.
C38_ActivationStoresDeclaredOnly ==
    [][\A to \in {"s1", "s2"} :
          ChangeScene("d1", to)
            => /\ \A name \in Names :
                     StoredFor(documents', name) =
                         IF DeclaredIn(to, name) # <<>> THEN DeclaredIn(to, name)
                         ELSE StoredFor(documents, name)
               /\ documents'["d1"].dragData = documents["d1"].dragData
               /\ documents'["d1"].interactionMap = documents["d1"].interactionMap
               /\ documents'["d1"].zCounter = documents["d1"].zCounter]_vars

\* Scene s2 has been activated while a session of A, a handler map and a
\* spec set for A by setConstraints were in the registry: C now has the spec
\* its element declares, A has kept its own, and the session, the map and the
\* raised counter are still there.
C38_Witness ==
    /\ last.op = "changeScene" /\ Loaded("d1") /\ currentScene["d1"] = "s2"
    /\ StoredFor(documents, "C") = <<DataAttrs("c")>>
    /\ StoredFor(documents, "A") = <<[maxY |-> 1]>>
    /\ Has(documents["d1"].dragData, "A")
    /\ documents["d1"].interactionMap # <<>>
    /\ documents["d1"].zCounter > ZBase

------------------------------------------------------------------------------
(* Specification of handler-map changes: one drag of a at a time, the map    *)
(* replaced through setInteractionMap and cleared through resetState at any *)
(* point of it.                                                              *)

NextMaps ==
    \/ DocumentLoad("d1")
    \/ /\ cleanups = <<>>
       /\ ~ActiveA(documents)
       /\ Start("d1", "a", 0, 0)
    \/ Move("d1", "a", 1, 0)
    \/ \E phase \in {"end", "cancel"} : End("d1", "a", phase)
    \/ CleanupFire
    \/ \E map \in Maps : SetInteractionMap("d1", map)
    \/ ResetState("d1", "")

SpecMaps == Init /\ [][NextMaps]_vars

\* The slot of A's record in the map as it is now, "none" when the map has no
\* record for A or the record has no handler in that slot.
CallbackNow(slot) ==
    IF Has(documents["d1"].interactionMap, "A") /\ documents["d1"].interactionMap["A"][slot] # "none"
    THEN slot ELSE "none"

\* setInteractionMap leaves exactly the map it was given.
MapReplaced ==
    \A map \in Maps :
        (last'.op = "setInteractionMap" /\ SetInteractionMap("d1", map))
            => documents'["d1"].interactionMap = map

\* A start and a move of a session invoke the handler of the map as it is when
\* the event is handled.
StartUsesCurrentMap ==
    \A x \in Pointer :
        (last'.op = "start" /\ Start("d1", "a", x, 0)) => last'.cb = CallbackNow("onStart")
MoveUsesCurrentMap ==
    \A x \in Pointer :
        (/\ Loaded("d1") /\ Has(documents["d1"].dragData, "A")
         /\ last'.op = "move" /\ Move("d1", "a", x, 0))
            => last'.cb = CallbackNow("onProgress")

\* An end or cancel of an active session invokes the onDrop of the map as it
\* is then (the snapBack handler moves the element, the others and a missing
\* record do not), marks the session ended and schedules its cleanup.
EndUsesCurrentMap ==
    \A phase \in {"end", "cancel"} :
        (ActiveA(documents) /\ last'.op = phase /\ End("d1", "a", phase))
            => /\ last'.cb = CallbackNow("onDrop")
               /\ last'.wrote <=> (/\ Has(documents["d1"].interactionMap, "A")
                                   /\ documents["d1"].interactionMap["A"].onDrop = "snapBack")
               /\ EndedA(documents')
               /\ cleanups' = scheduleCleanup(cleanups, "d1", "A")

\* C39: callbacks are looked up in the handler map when each phase is
\* handled and setInteractionMap replaces the whole map; an end whose map was
\* replaced or cleared after the start invokes the onDrop of the map current
\* at the end, or nothing, and still ends the session and schedules its
\* cleanup.
C39_CallbacksLookedUpPerPhase ==
    [][MapReplaced /\ StartUsesCurrentMap /\ MoveUsesCurrentMap /\ EndUsesCurrentMap]_vars

\* An end was handled after resetState had cleared the map in the middle of
\* the session (the baseline attributes the start had set are gone): no
\* callback ran, the session is ended and its cleanup is pending.
C39_Witness ==
    /\ last.op \in {"end", "cancel"} /\ last.el = "a" /\ last.cb = "none"
    /\ EndedA(documents) /\ FreshCleanupPending("d1", "A")
    /\ Len(cleanups) = 1
    /\ documents["d1"].interactionMap = <<>>
    /\ ~Has(initAttr, "a")

====
